---- MODULE Spec2Model ----
(***************************************************************************)
(* Model of the fragrance-rater preference-and-recommendation engine:      *)
(*   services/recommendation_service.py  (profile, scorer, ranker)         *)
(*   services/evaluation_service.py, api/evaluations.py  (rating store)    *)
(*   services/llm_service.py  (explanation adapter and its cache)          *)
(*   services/reviewer_service.py, api/reviewers.py  (reviewers, seeding)  *)
(*   api/recommendations.py  (profile summary and explanation endpoints)   *)
(*                                                                         *)
(* Numbers.  Python floats are modelled by exact fixed-point integers:     *)
(*   note affinity    : integer (a sum of rating weights)                  *)
(*   accord intensity : tenths      (8 stands for 0.8)                     *)
(*   accord affinity  : tenths      (sum of weight * intensity)            *)
(*   family affinity  : halves      (weight, and 0.5 * weight)             *)
(*   a quotient       : [num, den]  with den > 0                           *)
(* so that sums, means and the weighted raw score are exact; of floating   *)
(* point only the two ends of the sigmoid are modelled (the overflow of    *)
(* math.exp and the rounding of 1 + exp(-raw) to 1.0).                     *)
(*                                                                         *)
(* Specifications.                                                         *)
(*   Spec      : the store and the ranker, requests served one at a time   *)
(*   SpecStore : the store, create requests interleaved at their await     *)
(*   SpecLLM   : the explanation adapter, calls interleaved at the await   *)
(*   SpecKey   : the cache key function on arbitrary prefixes and ids      *)
(*   SpecScore : calculate_match_score on profiles of any magnitude        *)
(*   SpecSeed  : the reviewers table: create, delete and seed requests     *)
(*   SpecSummary : the evaluation handlers and the profile summary         *)
(*               endpoint with the adapter's cache                         *)
(***************************************************************************)
EXTENDS Integers, Sequences, FiniteSets, Bags, TLC

VARIABLES
    evaluations,   \* the evaluations table: a bag of rows
    creating,      \* create requests between their lookup and their insert
    resp,          \* the response of the last storage / recommendation request
    llm_enabled,   \* settings.llm_enabled
    api_key,       \* settings.openrouter_api_key
    cache,         \* LLMService._cache
    inflight,      \* explanation requests suspended at the external call
    llm_resp,      \* the outcome of the last explanation request
    reviewers,     \* the reviewers table: rows in insertion order
    issued,        \* how many ids uuid4() has handed out
    fresh          \* history: the cache entries, as [key, reviewer_id], stored
                   \* since the evaluations of their reviewer last changed

vars == <<evaluations, creating, resp, llm_enabled, api_key, cache, inflight, llm_resp,
          reviewers, issued, fresh>>
reviewerVars == <<reviewers, issued>>
storeVars == <<evaluations, creating, resp, reviewerVars>>
adapterVars == <<llm_enabled, api_key, cache, inflight, llm_resp>>
llmVars == <<adapterVars, fresh>>

None == "None"

(***************************************************************************)
(* Bounds of the model.                                                    *)
(***************************************************************************)
MaxEvals == 4
MaxLimit == 4
MaxInFlight == 2
MaxCreating == 2

(***************************************************************************)
(* Program constants.                                                      *)
(***************************************************************************)
RATING_WEIGHTS == (1 :> -2) @@ (2 :> -1) @@ (3 :> 0) @@ (4 :> 1) @@ (5 :> 2)
VETO_THRESHOLD == -3
MIN_EVALUATIONS == 3
\* COMPONENT_WEIGHTS in hundredths
COMPONENT_WEIGHTS == [notes |-> 40, accords |-> 30, family |-> 20, subfamily |-> 10]

Ratings == 1..5
Reviewers == {"r1", "r2"}

\* the requests of the model: r1 rates anything with any rating; r2, whose rows
\* are there to be told apart from r1's, rates two fragrances with 1 or 5
RatingsBy(reviewer_id) == IF reviewer_id = "r1" THEN Ratings ELSE {1, 5}
RatedBy(reviewer_id) == IF reviewer_id = "r1" THEN {"f1", "f2", "f3", "f4"} ELSE {"f1", "f4"}

(***************************************************************************)
(* Strings are ordered as Python orders them; the strings of the model,    *)
(* in ascending order.                                                     *)
(***************************************************************************)
StrOrder ==
    <<"Alpha", "Amber", "Beta", "Cedar", "Delta", "Iris", "Musk", "Oud", "Rose", "Vanilla",
      "amber", "aquatic", "citrus", "f1", "f2", "f3", "f4", "floral", "fresh", "fruity",
      "green", "powdery", "sweet", "woody">>
StrRank(s) == CHOOSE i \in 1..Len(StrOrder) : StrOrder[i] = s
StrLt(a, b) == StrRank(a) < StrRank(b)

(***************************************************************************)
(* The catalog: fragrances with their notes (FragranceNote rows, in the    *)
(* order the relationship loads them) and accords (FragranceAccord rows).  *)
(***************************************************************************)
NoteName ==
    [n1 |-> "Oud", n2 |-> "Rose", n3 |-> "Musk", n4 |-> "Vanilla", n5 |-> "Cedar",
     n6 |-> "Amber", n7 |-> "Iris"]

Catalog ==
    [f1 |-> [name |-> "Beta", brand |-> "B", primary_family |-> "woody", subfamily |-> "amber",
             notes |-> <<"n2", "n1">>,
             accords |-> <<[accord_type |-> "woody", intensity |-> 10]>>],
     f2 |-> [name |-> "Alpha", brand |-> "B", primary_family |-> "woody", subfamily |-> "amber",
             notes |-> <<"n1", "n4", "n5", "n6", "n7">>,
             accords |-> <<[accord_type |-> "woody", intensity |-> 5],
                           [accord_type |-> "sweet", intensity |-> 8],
                           [accord_type |-> "powdery", intensity |-> 5]>>],
     f3 |-> [name |-> "Alpha", brand |-> "B", primary_family |-> "woody", subfamily |-> "woody",
             notes |-> <<"n3", "n2">>,
             accords |-> <<>>],
     f4 |-> [name |-> "Delta", brand |-> "B", primary_family |-> "fresh", subfamily |-> "citrus",
             notes |-> <<>>,
             accords |-> <<[accord_type |-> "citrus", intensity |-> 8],
                           [accord_type |-> "aquatic", intensity |-> 5],
                           [accord_type |-> "green", intensity |-> 3]>>]]

Fragrances == DOMAIN Catalog

(***************************************************************************)
(* Sequences.                                                              *)
(***************************************************************************)
Range(s) == {s[i] : i \in 1..Len(s)}

\* all orderings of a finite set, as sequences without repetition
Orderings(S) ==
    {s \in [1..Cardinality(S) -> S] : \A i, j \in 1..Cardinality(S) : i # j => s[i] # s[j]}

Min(a, b) == IF a <= b THEN a ELSE b
Max(a, b) == IF a >= b THEN a ELSE b

\* Python's s[:n]
SliceTo(s, n) ==
    IF n >= 0 THEN SubSeq(s, 1, Min(n, Len(s))) ELSE SubSeq(s, 1, Max(Len(s) + n, 0))

\* Python's s[-n:] for n > 0
LastN(s, n) == IF Len(s) <= n THEN s ELSE SubSeq(s, Len(s) - n + 1, Len(s))

RECURSIVE Reversed(_)
Reversed(s) == IF s = <<>> THEN <<>> ELSE Reversed(Tail(s)) \o <<Head(s)>>

RECURSIVE SumSeq(_)
SumSeq(s) == IF s = <<>> THEN 0 ELSE Head(s) + SumSeq(Tail(s))

(***************************************************************************)
(* Python's list.sort / sorted with reverse=True: a stable sort into       *)
(* descending key order.                                                  *)
(***************************************************************************)
\* less[i][j]: key(s[i]) < key(s[j]).  Each element goes after every earlier
\* element whose key is not smaller: equal keys keep their order
SortDesc(s, less) ==
    LET ins[k \in 0..Len(s)] ==
            IF k = 0 THEN <<>>
            ELSE LET sorted == ins[k - 1]
                     p == Cardinality({i \in 1..Len(sorted) : ~less[sorted[i]][k]})
                 IN SubSeq(sorted, 1, p) \o <<k>> \o SubSeq(sorted, p + 1, Len(sorted))
        order == ins[Len(s)]
    IN [i \in 1..Len(s) |-> s[order[i]]]

\* the table of key(s[i]) < key(s[j]) for a sequence of integer keys
IntLess(keys) == [i \in 1..Len(keys) |-> [j \in 1..Len(keys) |-> keys[i] < keys[j]]]

(***************************************************************************)
(* A Python dict: the items <<key, value>> in insertion order.             *)
(***************************************************************************)
DictKeys(d) == {d[i][1] : i \in 1..Len(d)}
DictGet(d, k, default) ==
    IF k \in DictKeys(d) THEN d[CHOOSE i \in 1..Len(d) : d[i][1] = k][2] ELSE default
\* d[k] = v
DictSet(d, k, v) ==
    IF k \in DictKeys(d)
    THEN [d EXCEPT ![CHOOSE i \in 1..Len(d) : d[i][1] = k] = <<k, v>>]
    ELSE Append(d, <<k, v>>)
\* d[k] += delta on a defaultdict(float)
DictAdd(d, k, delta) == DictSet(d, k, DictGet(d, k, 0) + delta)

(***************************************************************************)
(* Exact quotients, kept in lowest terms.                                  *)
(***************************************************************************)
Abs(x) == IF x < 0 THEN -x ELSE x

RECURSIVE GCD(_, _)
GCD(a, b) == IF b = 0 THEN a ELSE GCD(b, a % b)

Rat(n, d) ==
    LET g == GCD(Abs(n), d) IN [num |-> n \div g, den |-> d \div g]
RatAdd(a, b) == Rat(a.num * b.den + b.num * a.den, a.den * b.den)
\* (k / d) * a
RatScale(k, d, a) == Rat(k * a.num, d * a.den)
RatLt(a, b) == a.num * b.den < b.num * a.den

(***************************************************************************)
(* 1 / (1 + math.exp(-raw)) is kept as the raw value it is the logistic    *)
(* of; the logistic is increasing, so two such scores compare as their     *)
(* raw values do.  LOGIT_E4[p] is floor(10^4 * ln(p / (100 - p))): the     *)
(* logistic of raw is at least p/100 exactly when 10^4 * raw exceeds it    *)
(* (entry 50 is -1 because ln(1) = 0 is met with equality).                *)
(***************************************************************************)
LOGIT_E4 ==
    <<-45952, -38919, -34761, -31781, -29445, -27516, -25867, -24424, -23137, -21973,
      -20908, -19925, -19010, -18153, -17347, -16583, -15857, -15164, -14501, -13863,
      -13250, -12657, -12084, -11527, -10987, -10460, -9947, -9445, -8954, -8473,
      -8002, -7538, -7082, -6633, -6191, -5754, -5323, -4896, -4474, -4055, -3640,
      -3228, -2819, -2412, -2007, -1604, -1202, -801, -401, -1, 400, 800, 1201, 1603,
      2006, 2411, 2818, 3227, 3639, 4054, 4473, 4895, 5322, 5753, 6190, 6632, 7081,
      7537, 8001, 8472, 8953, 9444, 9946, 10459, 10986, 11526, 12083, 12656, 13249,
      13862, 14500, 15163, 15856, 16582, 17346, 18152, 19009, 19924, 20907, 21972,
      23136, 24423, 25866, 27515, 29444, 31780, 34760, 38918, 45951>>

\* logistic(raw) >= p / 100, for a logistic below 1
LogisticAtLeast(raw, p) == p < 100 /\ raw.num * 10000 > LOGIT_E4[p] * raw.den

\* math.exp(x) raises OverflowError for x above ln(max double) = 709.78...
EXP_OVERFLOW_E2 == 70978
\* 1 + math.exp(-raw) is the double 1.0 when exp(-raw) <= 2^-53, that is from
\* raw = 53 * ln(2) = 36.737 on
ROUNDS_TO_ONE_E3 == 36737

\* normalized = 1 / (1 + math.exp(-raw_score)), in double arithmetic: the
\* call of math.exp raises, or the quotient is the double 1.0, or it is a
\* double strictly between 0 and 1, kept as the logistic of raw
Sigmoid(raw) ==
    IF (0 - raw.num) * 100 > EXP_OVERFLOW_E2 * raw.den
    THEN [kind |-> "raises", exception |-> "OverflowError"]
    ELSE IF raw.num * 1000 >= ROUNDS_TO_ONE_E3 * raw.den
    THEN [kind |-> "literal", percent |-> 100]
    ELSE [kind |-> "logistic", raw |-> raw]
\* the literal 0.1
ScoreTenth == [kind |-> "literal", percent |-> 10]

\* int(normalized * 100)
ScorePercent(score) ==
    IF score.kind = "literal" THEN score.percent
    ELSE Cardinality({p \in 1..99 : LogisticAtLeast(score.raw, p)})

\* a < b on scores
ScoreLess(a, b) ==
    CASE a.kind = "logistic" /\ b.kind = "logistic" -> RatLt(a.raw, b.raw)
      [] a.kind = "literal" /\ b.kind = "logistic" -> LogisticAtLeast(b.raw, a.percent)
      [] a.kind = "logistic" /\ b.kind = "literal" -> ~LogisticAtLeast(a.raw, b.percent)
      [] OTHER -> a.percent < b.percent

(***************************************************************************)
(* RecommendationService.build_preference_profile                          *)
(* evals: the reviewer's Evaluation rows in the order the query returned   *)
(* them (the statement has no ORDER BY).                                   *)
(***************************************************************************)
\* RATING_WEIGHTS.get(evaluation.rating, 0.0)
RatingWeight(rating) ==
    IF rating \in DOMAIN RATING_WEIGHTS THEN RATING_WEIGHTS[rating] ELSE 0

RECURSIVE AccumulateNotes(_, _, _)
AccumulateNotes(acc, notes, weight) ==
    IF notes = <<>> THEN acc
    ELSE AccumulateNotes(
            [acc EXCEPT !.note_affinities = DictAdd(@, Head(notes), weight),
                        !.note_names = DictSet(@, Head(notes), NoteName[Head(notes)])],
            Tail(notes), weight)

RECURSIVE AccumulateAccords(_, _, _)
AccumulateAccords(acc, accords, weight) ==
    IF accords = <<>> THEN acc
    ELSE AccumulateAccords(
            [acc EXCEPT !.accord_affinities =
                DictAdd(@, Head(accords).accord_type, weight * Head(accords).intensity)],
            Tail(accords), weight)

\* variant: a fragrance whose family is its subfamily counted once, as the family
AccumulateFamiliesOnce(acc, fragrance, weight) ==
    [acc EXCEPT !.family_affinities =
        IF fragrance.primary_family = fragrance.subfamily
        THEN DictAdd(@, fragrance.primary_family, 2 * weight)
        ELSE DictAdd(DictAdd(@, fragrance.primary_family, 2 * weight),
                     fragrance.subfamily, weight)]

\* family_affinities[primary_family] += weight; [subfamily] += weight * 0.5  (in halves)
AccumulateFamilies(acc, fragrance, weight) ==
    [acc EXCEPT !.family_affinities =
        DictAdd(DictAdd(@, fragrance.primary_family, 2 * weight), fragrance.subfamily, weight)]

AccumulateEvaluation(acc, evaluation) ==
    LET weight == RatingWeight(evaluation.rating)
        fragrance == Catalog[evaluation.fragrance_id]
    IN AccumulateFamilies(
           AccumulateAccords(AccumulateNotes(acc, fragrance.notes, weight),
                             fragrance.accords, weight),
           fragrance, weight)

RECURSIVE AccumulateEvaluations(_, _)
AccumulateEvaluations(acc, evals) ==
    IF evals = <<>> THEN acc
    ELSE AccumulateEvaluations(AccumulateEvaluation(acc, Head(evals)), Tail(evals))

EmptyAffinities ==
    [note_affinities |-> <<>>, note_names |-> <<>>,
     accord_affinities |-> <<>>, family_affinities |-> <<>>]

TOP_N == 5

\* variant: score >= 0
IsLikedOrNeutral(pair) == pair[2] >= 0

\* (name, score) pairs
IsLiked(pair) == pair[2] > 0
IsDisliked(pair) == pair[2] < 0

build_preference_profile(reviewer_id, evals) ==
    LET acc == AccumulateEvaluations(EmptyAffinities, evals)
        named == [i \in 1..Len(acc.note_affinities) |->
                    <<DictGet(acc.note_names, acc.note_affinities[i][1],
                              acc.note_affinities[i][1]),
                      acc.note_affinities[i][2]>>]
        sorted_notes == SortDesc(named, IntLess([i \in 1..Len(named) |-> named[i][2]]))
        top_liked == SliceTo(SelectSeq(sorted_notes, IsLiked), TOP_N)
        top_disliked == LastN(SelectSeq(sorted_notes, IsDisliked), TOP_N)
    IN [reviewer_id |-> reviewer_id,
        note_affinities |-> acc.note_affinities,
        accord_affinities |-> acc.accord_affinities,
        family_affinities |-> acc.family_affinities,
        evaluation_count |-> Len(evals),
        top_liked_notes |-> top_liked,
        top_disliked_notes |-> Reversed(top_disliked)]

\* sorted(affinities.items(), key=lambda x: x[1], reverse=True)[:5]
TopItems(affinities) ==
    SliceTo(SortDesc(affinities, IntLess([i \in 1..Len(affinities) |-> affinities[i][2]])),
            TOP_N)

\* RecommendationService.get_reviewer_profile_summary, of the profile built
get_reviewer_profile_summary(profile) ==
    [evaluation_count |-> profile.evaluation_count,
     top_liked_notes |-> profile.top_liked_notes,
     top_disliked_notes |-> profile.top_disliked_notes,
     top_accords |-> TopItems(profile.accord_affinities),
     top_families |-> TopItems(profile.family_affinities)]

(***************************************************************************)
(* RecommendationService.calculate_match_score                             *)
(***************************************************************************)
\* variant: an affinity at the threshold vetoes too
VetoingNotesAtThreshold(profile, fragrance) ==
    LET Below(n) == DictGet(profile.note_affinities, n, 0) <= VETO_THRESHOLD
    IN SelectSeq(fragrance.notes, Below)

\* the notes of the fragrance, in iteration order, whose affinity is below the threshold
VetoingNotes(profile, fragrance) ==
    LET Below(n) == DictGet(profile.note_affinities, n, 0) < VETO_THRESHOLD
    IN SelectSeq(fragrance.notes, Below)

NoteScores(profile, fragrance) ==
    [i \in 1..Len(fragrance.notes) |->
        DictGet(profile.note_affinities, fragrance.notes[i], 0)]

\* affinity (tenths) * intensity (tenths): hundredths
AccordScores(profile, fragrance) ==
    [i \in 1..Len(fragrance.accords) |->
        DictGet(profile.accord_affinities, fragrance.accords[i].accord_type, 0)
            * fragrance.accords[i].intensity]

\* sum(scores) / max(len(scores), 1), the scores counted in units of 1/unit
MeanScore(scores, unit) == Rat(SumSeq(scores), unit * Max(Len(scores), 1))

\* variant: the weights of the notes and of the accords exchanged
WeightedSumSwapped(note_score, accord_score, family_score, subfamily_score) ==
    RatAdd(RatAdd(RatScale(COMPONENT_WEIGHTS.accords, 100, note_score),
                  RatScale(COMPONENT_WEIGHTS.notes, 100, accord_score)),
           RatAdd(RatScale(COMPONENT_WEIGHTS.family, 100, family_score),
                  RatScale(COMPONENT_WEIGHTS.subfamily, 100, subfamily_score)))

WeightedSum(note_score, accord_score, family_score, subfamily_score) ==
    RatAdd(RatAdd(RatScale(COMPONENT_WEIGHTS.notes, 100, note_score),
                  RatScale(COMPONENT_WEIGHTS.accords, 100, accord_score)),
           RatAdd(RatScale(COMPONENT_WEIGHTS.family, 100, family_score),
                  RatScale(COMPONENT_WEIGHTS.subfamily, 100, subfamily_score)))

calculate_match_score(profile, fragrance) ==
    LET vetoing == VetoingNotes(profile, fragrance)
        note_score == MeanScore(NoteScores(profile, fragrance), 1)
        accord_score == MeanScore(AccordScores(profile, fragrance), 100)
        family_score == Rat(DictGet(profile.family_affinities, fragrance.primary_family, 0), 2)
        subfamily_score == Rat(DictGet(profile.family_affinities, fragrance.subfamily, 0), 2)
        raw_score == WeightedSum(note_score, accord_score, family_score, subfamily_score)
        normalized == Sigmoid(raw_score)
    IN IF vetoing # <<>>
       THEN [score |-> ScoreTenth, score_percent |-> 10, vetoed |-> TRUE,
             veto_note |-> NoteName[Head(vetoing)], components |-> <<>>]
       ELSE IF normalized.kind = "raises"
       THEN [raises |-> normalized.exception, vetoed |-> FALSE]
       ELSE [score |-> normalized, score_percent |-> ScorePercent(normalized),
             vetoed |-> FALSE, veto_note |-> None,
             components |-> [notes |-> note_score, accords |-> accord_score,
                             family |-> family_score, subfamily |-> subfamily_score,
                             raw |-> raw_score]]

(***************************************************************************)
(* The evaluations table.  A row is [reviewer_id, fragrance_id, rating];   *)
(* the table is a bag of rows: the uuid4 primary key of a row is only ever *)
(* used to select the row, so a row's identity is its copy in the bag.     *)
(***************************************************************************)
Row(reviewer_id, fragrance_id, rating) ==
    [reviewer_id |-> reviewer_id, fragrance_id |-> fragrance_id, rating |-> rating]

\* the rows WHERE reviewer_id = ... , as a bag
EvaluationsOf(reviewer_id) ==
    LET rows == {row \in BagToSet(evaluations) : row.reviewer_id = reviewer_id}
    IN [row \in rows |-> evaluations[row]]

\* every order in which a query without ORDER BY may return the rows of bag B
BagOrderings(B) ==
    {s \in [1..BagCardinality(B) -> BagToSet(B)] :
        \A row \in BagToSet(B) : Cardinality({i \in DOMAIN s : s[i] = row}) = B[row]}

\* EvaluationService.get_by_reviewer_and_fragrance(...) is not None
PairExists(reviewer_id, fragrance_id) ==
    \E row \in BagToSet(evaluations) :
        row.reviewer_id = reviewer_id /\ row.fragrance_id = fragrance_id

\* no request is being served: the previous response has been returned
Idle == resp.op = "none"

\* the handler's return: the response leaves the server
Return ==
    /\ ~Idle
    /\ resp' = [op |-> "none"]
    /\ UNCHANGED <<evaluations, creating, llmVars, reviewerVars>>

\* history: the entries that stay fresh when the evaluations of a reviewer
\* change (no handler of api/evaluations.py touches the adapter or its cache)
NotOf(reviewer_id) == {entry \in fresh : entry.reviewer_id # reviewer_id}

\* api/evaluations.py create_evaluation, served alone: the lookup, then the
\* insert with nothing in between
CreateEvaluation ==
    /\ Idle
    /\ \E reviewer_id \in Reviewers :
       \E fragrance_id \in RatedBy(reviewer_id), rating \in RatingsBy(reviewer_id) :
        IF PairExists(reviewer_id, fragrance_id)
        THEN /\ resp' = [op |-> "create", status |-> 409, error |-> "EVALUATION_EXISTS"]
             /\ UNCHANGED evaluations
             /\ UNCHANGED fresh
        ELSE /\ BagCardinality(evaluations) < MaxEvals
             /\ evaluations' = evaluations (+) SetToBag({Row(reviewer_id, fragrance_id, rating)})
             /\ resp' = [op |-> "create", status |-> 201, error |-> None]
             /\ fresh' = NotOf(reviewer_id)
    /\ UNCHANGED <<creating, adapterVars, reviewerVars>>

\* create_evaluation up to the await of service.create: the lookup of the
\* pair among the committed rows, in the request's own session, and the 409
CreateEvaluationLookup ==
    /\ Idle
    /\ \E reviewer_id \in Reviewers :
       \E fragrance_id \in RatedBy(reviewer_id), rating \in RatingsBy(reviewer_id) :
        IF PairExists(reviewer_id, fragrance_id)
        THEN /\ resp' = [op |-> "create", status |-> 409, error |-> "EVALUATION_EXISTS"]
             /\ UNCHANGED <<evaluations, creating>>
        ELSE /\ BagCardinality(evaluations) + BagCardinality(creating) < MaxEvals
             /\ BagCardinality(creating) < MaxCreating
             /\ creating' = creating (+) SetToBag({Row(reviewer_id, fragrance_id, rating)})
             /\ UNCHANGED <<evaluations, resp>>
    /\ UNCHANGED <<llmVars, reviewerVars>>

\* create_evaluation from service.create on: the INSERT, the 201 and the
\* commit of the request's session.  No constraint of the table looks at
\* (reviewer_id, fragrance_id), so the INSERT succeeds whatever the rows
CreateEvaluationInsert ==
    /\ Idle
    /\ \E row \in BagToSet(creating) :
        /\ creating' = creating (-) SetToBag({row})
        /\ evaluations' = evaluations (+) SetToBag({row})
        /\ resp' = [op |-> "create", status |-> 201, error |-> None]
        /\ fresh' = NotOf(row.reviewer_id)
    /\ UNCHANGED <<adapterVars, reviewerVars>>

\* api/evaluations.py update_evaluation, of an existing evaluation
UpdateEvaluation ==
    /\ Idle
    /\ \E row \in BagToSet(evaluations) :
       \E rating \in RatingsBy(row.reviewer_id) :
        /\ evaluations' = (evaluations (-) SetToBag({row}))
                            (+) SetToBag({[row EXCEPT !.rating = rating]})
        /\ resp' = [op |-> "update", status |-> 200, error |-> None]
        /\ fresh' = NotOf(row.reviewer_id)
        /\ UNCHANGED creating
    /\ UNCHANGED <<adapterVars, reviewerVars>>

\* api/evaluations.py delete_evaluation, of an existing evaluation
DeleteEvaluation ==
    /\ Idle
    /\ \E row \in BagToSet(evaluations) :
        /\ evaluations' = evaluations (-) SetToBag({row})
        /\ resp' = [op |-> "delete", status |-> 204, error |-> None]
        /\ fresh' = NotOf(row.reviewer_id)
        /\ UNCHANGED creating
    /\ UNCHANGED <<adapterVars, reviewerVars>>

\* update_evaluation / delete_evaluation of an id no row has
EvaluationNotFound ==
    /\ Idle
    /\ \E op \in {"update", "delete"} :
          resp' = [op |-> op, status |-> 404, error |-> "EVALUATION_NOT_FOUND"]
    /\ UNCHANGED <<evaluations, creating, llmVars, reviewerVars>>

(***************************************************************************)
(* RecommendationService.get_recommendations                               *)
(***************************************************************************)
\* ids a request may name: the reviewers, and an id no reviewer has
RequestReviewerIds == Reviewers \cup {"r0"}

\* variant: the minimum itself is insufficient
InsufficientDataAtMinimum(profile) == profile.evaluation_count <= MIN_EVALUATIONS

\* if profile.evaluation_count < MIN_EVALUATIONS
InsufficientData(profile) == profile.evaluation_count < MIN_EVALUATIONS

\* raise InsufficientDataError(f"Need at least {MIN_EVALUATIONS} evaluations for recommendations")
InsufficientDataError ==
    [type |-> "InsufficientDataError",
     message |-> <<"Need at least ", MIN_EVALUATIONS, " evaluations for recommendations">>]

\* variant: the rated ids of every reviewer, the WHERE clause dropped
RatedIdsOfAnyone(reviewer_id) ==
    {row.fragrance_id : row \in BagToSet(evaluations)}

\* rated_ids = {row[0] for row in rated_result.all()}
RatedIds(reviewer_id) ==
    {row.fragrance_id : row \in {e \in BagToSet(evaluations) : e.reviewer_id = reviewer_id}}

\* select(Fragrance) [.where(Fragrance.id.notin_(rated_ids))]
CandidateIds(reviewer_id, exclude_rated) ==
    IF exclude_rated THEN Fragrances \ RatedIds(reviewer_id) ELSE Fragrances

\* calculate_match_score(profile, .) tabulated over the fragrances ids
RECURSIVE MatchTable(_, _)
MatchTable(profile, ids) ==
    IF ids = {} THEN <<>>
    ELSE LET f == CHOOSE f \in ids : TRUE
             rest == ids \ {f}
             entry == f :> calculate_match_score(profile, Catalog[f])
         IN IF rest = {} THEN entry ELSE entry @@ MatchTable(profile, rest)

\* Recommendation(...) of one candidate; match is the candidate's MatchResult
MakeRecommendation(match, fragrance_id) ==
    LET fragrance == Catalog[fragrance_id]
        match_result == match[fragrance_id]
    IN [fragrance_id |-> fragrance_id,
        fragrance_name |-> fragrance.name,
        fragrance_brand |-> fragrance.brand,
        match_score |-> match_result.score,
        match_percent |-> match_result.score_percent,
        vetoed |-> match_result.vetoed,
        veto_reason |-> IF match_result.vetoed
                        THEN <<"Contains ", match_result.veto_note, " which you dislike">>
                        ELSE None,
        components |-> match_result.components]

\* variant: key=lambda r: r.match_score
ScoreOnlyKeyLess(a, b) == ScoreLess(a.match_score, b.match_score)

\* key=lambda r: (not r.vetoed, r.match_score): key(a) < key(b)
RecommendationKeyLess(a, b) ==
    \/ a.vetoed /\ ~b.vetoed
    \/ a.vetoed = b.vetoed /\ ScoreLess(a.match_score, b.match_score)

\* recommendations.sort(key=..., reverse=True)
SortRecommendations(recommendations) ==
    SortDesc(recommendations,
             [i \in 1..Len(recommendations) |-> [j \in 1..Len(recommendations) |->
                RecommendationKeyLess(recommendations[i], recommendations[j])]])

\* the scoring loop over the candidates, in the order the query returned them
RECURSIVE ScoreCandidates(_, _)
ScoreCandidates(match, candidates) ==
    IF candidates = <<>> THEN <<>>
    ELSE <<MakeRecommendation(match, Head(candidates))>>
            \o ScoreCandidates(match, Tail(candidates))

\* recommendations[:limit]
Truncate(recommendations, limit) == SliceTo(recommendations, limit)

\* the profile endpoints' call of build_preference_profile
BuildProfile ==
    /\ Idle
    /\ \E reviewer_id \in RequestReviewerIds :
       \E evals \in BagOrderings(EvaluationsOf(reviewer_id)) :
        \E profile \in {build_preference_profile(reviewer_id, evals)} :
          resp' = [op |-> "profile", reviewer_id |-> reviewer_id, status |-> 200,
                    error |-> None,
                    profile |-> profile,
                    summary |-> get_reviewer_profile_summary(profile)]
    /\ UNCHANGED <<evaluations, creating, llmVars, reviewerVars>>

\* get_recommendations reads the profile through .get(key, 0) and evaluation_count
\* only (lines 198, 209, 215, 221-222, 271), so two profiles that differ in the
\* insertion order of their dicts alone are the same profile to it
SameLookups(p, q) ==
    /\ Range(p.note_affinities) = Range(q.note_affinities)
    /\ Range(p.accord_affinities) = Range(q.accord_affinities)
    /\ Range(p.family_affinities) = Range(q.family_affinities)
    /\ p.evaluation_count = q.evaluation_count

\* the profiles build_preference_profile may return, one for each order the
\* evaluations query may return the rows in, up to SameLookups
ProfilesFor(reviewer_id) ==
    LET built == {build_preference_profile(reviewer_id, evals) :
                    evals \in BagOrderings(EvaluationsOf(reviewer_id))}
    IN {p \in built : p = CHOOSE q \in built : SameLookups(p, q)}

GetRecommendations ==
    /\ Idle
    /\ \E reviewer_id \in RequestReviewerIds :
       \E profile \in ProfilesFor(reviewer_id) :
        LET request == [op |-> "recommend", reviewer_id |-> reviewer_id,
                        evaluation_count |-> profile.evaluation_count]
        IN IF InsufficientData(profile)
              THEN resp' = request @@
                        [status |-> 400, error |-> InsufficientDataError,
                         scored |-> {}, recommendations |-> None]
              ELSE \E match \in {MatchTable(profile, Fragrances)} :
                   \E exclude_rated \in BOOLEAN :
                   \E candidates \in Orderings(CandidateIds(reviewer_id, exclude_rated)) :
                        LET sorted == SortRecommendations(ScoreCandidates(match, candidates))
                        IN \E limit \in 1..MaxLimit :
                            resp' = request @@
                                [status |-> 200, error |-> None,
                                 limit |-> limit, exclude_rated |-> exclude_rated,
                                 scored |-> Range(candidates),
                                 recommendations |-> Truncate(sorted, limit)]
    /\ UNCHANGED <<evaluations, creating, llmVars, reviewerVars>>

(***************************************************************************)
(* The store and the ranker.                                               *)
(***************************************************************************)
\* GET /recommendations/{reviewer_id}/{fragrance_id}/explain.  After the 400
\* and the 404 the handler reads fn.note_type of each FragranceNote (the
\* mapped attribute is position) and fragrance.family (the mapped attribute
\* is primary_family): the first of the two reads that is reached raises
\* AttributeError, before get_recommendations and the adapter are called.
\* handed: the recommendations passed to generate_recommendation_explanation;
\* scorer: what calculate_match_score gives for the fragrance and the profile
GetRecommendationExplanation ==
    /\ Idle
    /\ \E reviewer_id \in RequestReviewerIds, fragrance_id \in Fragrances \cup {"f0"} :
       \E profile \in ProfilesFor(reviewer_id) :
        LET request == [op |-> "explain", reviewer_id |-> reviewer_id,
                        fragrance_id |-> fragrance_id,
                        evaluation_count |-> profile.evaluation_count,
                        handed |-> <<>>]
            result == calculate_match_score(profile, Catalog[fragrance_id])
        IN resp' = IF profile.evaluation_count < 3
                   THEN request @@ [status |-> 400, error |-> "INSUFFICIENT_DATA",
                                    raised |-> None]
                   ELSE IF fragrance_id \notin Fragrances
                   THEN request @@ [status |-> 404, error |-> "NOT_FOUND", raised |-> None]
                   ELSE request @@ [status |-> 500, error |-> None,
                                    raised |-> "AttributeError",
                                    scorer |-> [vetoed |-> result.vetoed,
                                                veto_note |-> result.veto_note,
                                                score_percent |-> result.score_percent],
                                    attribute |-> IF Catalog[fragrance_id].notes # <<>>
                                                  THEN "FragranceNote.note_type"
                                                  ELSE "Fragrance.family"]
    /\ UNCHANGED <<evaluations, creating, llmVars, reviewerVars>>

Init ==
    /\ evaluations = EmptyBag
    /\ creating = EmptyBag
    /\ resp = [op |-> "none"]
    /\ llm_enabled = TRUE
    /\ api_key = ""
    /\ cache = <<>>
    /\ inflight = EmptyBag
    /\ llm_resp = [op |-> "none"]
    /\ reviewers = <<>>
    /\ issued = 0
    /\ fresh = {}

Next ==
    \/ CreateEvaluation
    \/ UpdateEvaluation
    \/ DeleteEvaluation
    \/ EvaluationNotFound
    \/ BuildProfile
    \/ GetRecommendations
    \/ GetRecommendationExplanation
    \/ Return

Spec == Init /\ [][Next]_vars

(***************************************************************************)
(* calculate_match_score on its own, on the profiles of reviewers with few *)
(* and with many evaluations: family affinities (in halves) from           *)
(* FamilyAffinities, the affinity of the note n1 from {-4, 0}.             *)
(***************************************************************************)
FamilyAffinities == {-4800, -4730, -40, -3, 0, 3, 40, 244, 246, 4800}

\* d[k] on a defaultdict(float): a missing key is inserted with 0.0
AfterGetItemOfDefaultDict(d, k) == IF k \in DictKeys(d) THEN d ELSE Append(d, <<k, 0>>)

\* the dict after d.get(k, 0): a plain dict (build_preference_profile hands
\* out dict(...) copies), which get() only reads
AfterGet(d, k) == d

\* the dict after the get() of each key in turn
RECURSIVE AfterGets(_, _)
AfterGets(d, keys) ==
    IF keys = <<>> THEN d ELSE AfterGets(AfterGet(d, Head(keys)), Tail(keys))

\* the profile object after calculate_match_score(profile, fragrance): the
\* veto loop looks the notes up as far as the first vetoing one and returns;
\* without a veto every note, every accord type and the two families are
\* looked up; nothing is assigned to the profile
ProfileAfterScore(profile, fragrance) ==
    LET vetoing == VetoingNotes(profile, fragrance)
        notes == fragrance.notes
        first == CHOOSE i \in 1..Len(notes) :
                    notes[i] = Head(vetoing) /\ \A j \in 1..(i - 1) : notes[j] # Head(vetoing)
        accord_types == [i \in 1..Len(fragrance.accords) |-> fragrance.accords[i].accord_type]
    IN IF vetoing # <<>>
       THEN [profile EXCEPT !.note_affinities = AfterGets(@, SubSeq(notes, 1, first))]
       ELSE [profile EXCEPT
                !.note_affinities = AfterGets(@, notes \o notes),
                !.accord_affinities = AfterGets(@, accord_types),
                !.family_affinities =
                    AfterGets(@, <<fragrance.primary_family, fragrance.subfamily>>)]

ScoreProfiles ==
    {[reviewer_id |-> "r1",
      note_affinities |-> <<<<"n1", n>>>>,
      accord_affinities |-> <<>>,
      family_affinities |-> <<<<"woody", w>>, <<"fresh", f>>>>,
      evaluation_count |-> MIN_EVALUATIONS,
      top_liked_notes |-> <<>>, top_disliked_notes |-> <<>>] :
        n \in {-4, 0}, w \in FamilyAffinities, f \in FamilyAffinities}

\* RecommendationService.calculate_match_score(profile, fragrance), as the
\* loop of get_recommendations calls it: on the profile object that the
\* scoring of the candidates before (none, or one of the catalog) has left
CalculateMatchScore ==
    /\ Idle
    /\ \E profile \in ScoreProfiles, fragrance_id \in Fragrances,
          before \in {<<>>} \cup {<<f>> : f \in Fragrances} :
        LET left == IF before = <<>> THEN profile
                    ELSE ProfileAfterScore(profile, Catalog[before[1]])
        IN resp' = [op |-> "score", profile |-> profile, fragrance_id |-> fragrance_id,
                    before |-> before,
                    result |-> calculate_match_score(left, Catalog[fragrance_id]),
                    profile_after |-> ProfileAfterScore(left, Catalog[fragrance_id])]
    /\ UNCHANGED <<evaluations, creating, llmVars, reviewerVars>>

NextScore ==
    \/ CalculateMatchScore
    \/ Return

SpecScore == Init /\ [][NextScore]_vars

(***************************************************************************)
(* The store under concurrent create requests: each request has its own    *)
(* session (core/database.py get_db) and the handler awaits between its    *)
(* lookup and its insert, so other requests run in between.                *)
(***************************************************************************)
NextStore ==
    \/ CreateEvaluationLookup
    \/ CreateEvaluationInsert
    \/ UpdateEvaluation
    \/ DeleteEvaluation
    \/ EvaluationNotFound
    \/ Return

SpecStore == Init /\ [][NextStore]_vars

(***************************************************************************)
(* The reviewers table and its handlers, served one at a time.  A row is   *)
(* [id, name]; uuid4() is modelled as the next unused number, so that an   *)
(* id is never handed out twice, also not after a delete.                  *)
(***************************************************************************)
DEFAULT_REVIEWERS == <<"Byron", "Veronica", "Bayden", "Ariannah">>

MaxIssued == 6

ReviewerNames == Range(DEFAULT_REVIEWERS) \cup {"Zoe"}

\* ReviewerService.get_by_name: the rows with that name (the unique
\* constraint on name keeps them to at most one)
get_by_name(rows, name) == SelectSeq(rows, LAMBDA row : row.name = name)

\* seed_default_reviewers creating a row for every default name, without
\* the lookup of the existing one
RECURSIVE seed_without_lookup(_, _, _)
seed_without_lookup(names, rows, count) ==
    IF names = <<>> THEN [rows |-> rows, issued |-> count, returned |-> <<>>]
    ELSE LET reviewer == [id |-> count + 1, name |-> Head(names)]
             rest == seed_without_lookup(Tail(names), Append(rows, reviewer), count + 1)
         IN [rest EXCEPT !.returned = <<reviewer>> \o @]

\* ReviewerService.seed_default_reviewers: for each default name in turn,
\* the existing row, or a new row with a fresh id
RECURSIVE seed_default_reviewers(_, _, _)
seed_default_reviewers(names, rows, count) ==
    IF names = <<>> THEN [rows |-> rows, issued |-> count, returned |-> <<>>]
    ELSE LET existing == get_by_name(rows, Head(names))
             reviewer == IF existing # <<>> THEN existing[1]
                         ELSE [id |-> count + 1, name |-> Head(names)]
             rest == IF existing # <<>>
                     THEN seed_default_reviewers(Tail(names), rows, count)
                     ELSE seed_default_reviewers(Tail(names), Append(rows, reviewer), count + 1)
         IN [rest EXCEPT !.returned = <<reviewer>> \o @]

\* POST /reviewers/seed
SeedReviewers ==
    /\ Idle
    /\ \E seeded \in {seed_default_reviewers(DEFAULT_REVIEWERS, reviewers, issued)} :
        /\ seeded.issued <= MaxIssued
        /\ reviewers' = seeded.rows
        /\ issued' = seeded.issued
        /\ resp' = [op |-> "seed", before |-> reviewers, reviewers |-> seeded.returned]
    /\ UNCHANGED <<evaluations, creating, llmVars>>

\* POST /reviewers
CreateReviewer ==
    /\ Idle
    /\ \E name \in ReviewerNames :
        IF get_by_name(reviewers, name) # <<>>
        THEN /\ resp' = [op |-> "create_reviewer", status |-> 409, error |-> "REVIEWER_EXISTS"]
             /\ UNCHANGED reviewerVars
        ELSE /\ issued < MaxIssued
             /\ reviewers' = Append(reviewers, [id |-> issued + 1, name |-> name])
             /\ issued' = issued + 1
             /\ resp' = [op |-> "create_reviewer", status |-> 201, id |-> issued + 1]
    /\ UNCHANGED <<evaluations, creating, llmVars>>

\* DELETE /reviewers/{reviewer_id}; the cascade to the reviewer's evaluations
\* finds none, the evaluations table holding no row of these reviewers
DeleteReviewer ==
    /\ Idle
    /\ \E reviewer_id \in 1..MaxIssued :
        /\ reviewers' = SelectSeq(reviewers, LAMBDA row : row.id # reviewer_id)
        /\ resp' = [op |-> "delete_reviewer",
                    status |-> IF reviewers' = reviewers THEN 404 ELSE 204]
    /\ UNCHANGED <<issued, evaluations, creating, llmVars>>

NextSeed ==
    \/ SeedReviewers
    \/ CreateReviewer
    \/ DeleteReviewer
    \/ Return

SpecSeed == Init /\ [][NextSeed]_vars

(***************************************************************************)
(* LLMService (services/llm_service.py).  A text is a sequence of parts.   *)
(* The adapter is one object (get_llm_service is an lru_cache singleton);  *)
(* a generate_* coroutine suspends at the await of the external call, so   *)
(* it is two steps, and other requests may run between them.               *)
(***************************************************************************)
\* settings.openrouter_model
LLM_MODEL == "settings.openrouter_model"

\* variant: the token ignored
EnabledByFlagOnly == llm_enabled

\* self.enabled = settings.llm_enabled and bool(self.api_key)
enabled == llm_enabled /\ api_key # ""

\* str.lower() on the note names used
Lower(name) ==
    CASE name \in {"Rose", "rose", "ROSE"} -> "rose"
      [] name \in {"Oud", "oud"} -> "oud"
      [] name \in {"Musk", "musk"} -> "musk"
      [] name \in {"Iris", "iris"} -> "iris"
      [] OTHER -> name

\* ", ".join(names)
RECURSIVE JoinComma(_)
JoinComma(names) ==
    IF names = <<>> THEN <<>>
    ELSE IF Len(names) = 1 THEN names
    ELSE <<Head(names), ", ">> \o JoinComma(Tail(names))

\* [n for n, _ in pairs]
RECURSIVE Names(_)
Names(pairs) == IF pairs = <<>> THEN <<>> ELSE <<Head(pairs)[1]>> \o Names(Tail(pairs))

\* the arguments generate_recommendation_explanation is called with
RecommendationRequests ==
    {[op |-> "rec",
      recommendation |-> [fragrance_id |-> "f1", match_percent |-> 73, vetoed |-> FALSE],
      profile |-> [reviewer_id |-> "r1", evaluation_count |-> 3,
                   top_liked_notes |-> <<<<"Oud", 4>>, <<"rose", 2>>>>,
                   top_disliked_notes |-> <<>>],
      fragrance_details |-> [family |-> "woody", top_notes |-> <<"Rose">>,
                             heart_notes |-> <<>>, base_notes |-> <<"Musk">>]],
     [op |-> "rec",
      recommendation |-> [fragrance_id |-> "f2", match_percent |-> 10, vetoed |-> TRUE],
      profile |-> [reviewer_id |-> "r1", evaluation_count |-> 3,
                   top_liked_notes |-> <<<<"Oud", 4>>, <<"rose", 2>>>>,
                   top_disliked_notes |-> <<>>],
      fragrance_details |-> [family |-> "woody", top_notes |-> <<"Oud">>,
                             heart_notes |-> <<>>, base_notes |-> <<>>]],
     [op |-> "rec",
      recommendation |-> [fragrance_id |-> "f1", match_percent |-> 50, vetoed |-> FALSE],
      profile |-> [reviewer_id |-> "r2", evaluation_count |-> 3,
                   top_liked_notes |-> <<>>,
                   top_disliked_notes |-> <<<<"Musk", -2>>>>],
      fragrance_details |-> [family |-> "woody", top_notes |-> <<"Rose">>,
                             heart_notes |-> <<>>, base_notes |-> <<"Musk">>]],
     [op |-> "rec",
      recommendation |-> [fragrance_id |-> "f2", match_percent |-> 64, vetoed |-> FALSE],
      profile |-> [reviewer_id |-> "r2", evaluation_count |-> 4,
                   top_liked_notes |-> <<<<"Oud", 4>>, <<"Rose", 3>>, <<"Musk", 2>>,
                                         <<"Iris", 1>>>>,
                   top_disliked_notes |-> <<>>],
      fragrance_details |-> [family |-> "floral", top_notes |-> <<"iris">>,
                             heart_notes |-> <<"Vanilla">>, base_notes |-> <<>>]]}

\* the arguments generate_profile_summary is called with
ProfileRequests ==
    {[op |-> "profile", reviewer_name |-> "Ann",
      profile |-> [reviewer_id |-> "r1", evaluation_count |-> 3,
                   top_liked_notes |-> <<<<"Oud", 4>>, <<"rose", 2>>>>,
                   top_disliked_notes |-> <<>>]],
     [op |-> "profile", reviewer_name |-> "Bob",
      profile |-> [reviewer_id |-> "r0", evaluation_count |-> 0,
                   top_liked_notes |-> <<>>, top_disliked_notes |-> <<>>]]}

\* the characters of the strings that make up cache keys
Chars(string) ==
    CASE string = "rec" -> <<"r", "e", "c">>
      [] string = "profile" -> <<"p", "r", "o", "f", "i", "l", "e">>
      [] string = "r0" -> <<"r", "0">>
      [] string = "r1" -> <<"r", "1">>
      [] string = "r2" -> <<"r", "2">>
      [] string = "f1" -> <<"f", "1">>
      [] string = "f2" -> <<"f", "2">>
      [] string = "a" -> <<"a">>
      [] string = "b" -> <<"b">>
      [] string = "c" -> <<"c">>
      [] string = "a:b" -> <<"a", ":", "b">>
      [] string = "b:c" -> <<"b", ":", "c">>
      [] string = "rec:a" -> <<"r", "e", "c", ":", "a">>

\* ':'.join(args), as characters
RECURSIVE JoinColon(_)
JoinColon(args) ==
    IF args = <<>> THEN <<>>
    ELSE IF Len(args) = 1 THEN Chars(Head(args))
    ELSE Chars(Head(args)) \o <<":">> \o JoinColon(Tail(args))

\* hashlib.md5(f"{prefix}:{':'.join(args)}".encode()).hexdigest(): the digest
\* of the key string, taken to be free of collisions on the key strings
_cache_key(prefix, args) == [md5 |-> Chars(prefix) \o <<":">> \o JoinColon(args)]

\* the cache key of a request
CacheKeyOf(request) ==
    IF request.op = "rec"
    THEN _cache_key("rec", <<request.recommendation.fragrance_id, request.profile.reviewer_id>>)
    ELSE _cache_key("profile", <<request.profile.reviewer_id>>)

\* None where a text may stand: error: str | None
NoneStr == <<None>>

LLMResponse(text, model, cached, error) ==
    [text |-> text, model |-> model, cached |-> cached, error |-> error]

_fallback_recommendation_explanation(recommendation, profile, fragrance_details) ==
    LET liked == Names(SliceTo(profile.top_liked_notes, 3))
        notes == fragrance_details.top_notes \o fragrance_details.heart_notes
                    \o fragrance_details.base_notes
        InFragrance(n) == \E i \in 1..Len(notes) : Lower(notes[i]) = Lower(n)
        matching == SelectSeq(liked, InFragrance)
        text == IF recommendation.vetoed
                THEN <<"This fragrance contains notes you typically dislike. ",
                       "You might want to explore other options first.">>
                ELSE IF matching # <<>>
                THEN <<"This ", recommendation.match_percent, "% match contains ">>
                        \o JoinComma(matching)
                        \o <<" which you've enjoyed in other fragrances.">>
                ELSE <<"With a ", recommendation.match_percent, "% match score, ",
                       "this fragrance aligns well with your general preferences ",
                       "for ", fragrance_details.family, " scents.">>
    IN LLMResponse(text, "fallback", FALSE, NoneStr)

_fallback_profile_summary(profile, reviewer_name) ==
    LET liked == Names(SliceTo(profile.top_liked_notes, 3))
        disliked == Names(SliceTo(profile.top_disliked_notes, 3))
        parts == <<reviewer_name, " has rated ", profile.evaluation_count, " fragrances.">>
                 \o (IF liked # <<>>
                     THEN <<" ", "They tend to enjoy notes like ">> \o JoinComma(liked) \o <<".">>
                     ELSE <<>>)
                 \o (IF disliked # <<>>
                     THEN <<" ", "They generally avoid ">> \o JoinComma(disliked) \o <<".">>
                     ELSE <<>>)
                 \o (IF liked = <<>> /\ disliked = <<>>
                     THEN <<" ", "More evaluations needed to identify clear preferences.">>
                     ELSE <<>>)
    IN LLMResponse(parts, "fallback", FALSE, NoneStr)

\* the fallback of a request
FallbackOf(request) ==
    IF request.op = "rec"
    THEN _fallback_recommendation_explanation(request.recommendation, request.profile,
                                              request.fragrance_details)
    ELSE _fallback_profile_summary(request.profile, request.reviewer_name)

(***************************************************************************)
(* The external call.  What client.post, raise_for_status, response.json() *)
(* and data["choices"][0]["message"]["content"].strip() do on each kind of *)
(* outcome: the text they yield, or the exception they raise.              *)
(***************************************************************************)
Whitespace == {" ", "\n"}

\* str.strip(), on a text given as parts
RECURSIVE LStrip(_)
LStrip(text) ==
    IF text # <<>> /\ Head(text) \in Whitespace THEN LStrip(Tail(text)) ELSE text

Strip(text) == Reversed(LStrip(Reversed(LStrip(text))))

\* the outcomes of the POST
Outcomes ==
    {[kind |-> "body", status |-> 200, body |-> "content", content |-> <<"t1">>],
     [kind |-> "body", status |-> 200, body |-> "content", content |-> <<" ", "t2", "\n">>],
     [kind |-> "body", status |-> 429, body |-> "error"],
     [kind |-> "body", status |-> 500, body |-> "error"],
     [kind |-> "ConnectError"],
     [kind |-> "ReadTimeout"],
     [kind |-> "body", status |-> 200, body |-> "not JSON"],
     [kind |-> "body", status |-> 200, body |-> "object without choices"],
     [kind |-> "body", status |-> 200, body |-> "choices empty"],
     [kind |-> "body", status |-> 200, body |-> "content null"],
     [kind |-> "body", status |-> 200, body |-> "choices null"],
     [kind |-> "CancelledError"]}

\* the exception classes an exception is an instance of
ExceptionBases(exception) ==
    CASE exception = "HTTPStatusError" -> {"HTTPStatusError", "HTTPError", "Exception"}
      [] exception = "ConnectError" ->
            {"ConnectError", "TransportError", "RequestError", "HTTPError", "Exception"}
      [] exception = "ReadTimeout" ->
            {"ReadTimeout", "TimeoutException", "TransportError", "RequestError",
             "HTTPError", "Exception"}
      [] exception = "JSONDecodeError" -> {"JSONDecodeError", "ValueError", "Exception"}
      [] exception = "KeyError" -> {"KeyError", "LookupError", "Exception"}
      [] exception = "IndexError" -> {"IndexError", "LookupError", "Exception"}
      [] exception = "AttributeError" -> {"AttributeError", "Exception"}
      [] exception = "TypeError" -> {"TypeError", "Exception"}
      [] exception = "CancelledError" -> {"CancelledError", "BaseException"}

IsInstance(exception, class) == class \in ExceptionBases(exception)

\* the body of the try block: the exception it raises, None when it returns
Raised(outcome) ==
    IF outcome.kind # "body" THEN outcome.kind
    ELSE IF outcome.status >= 400 THEN "HTTPStatusError"
    ELSE CASE outcome.body = "content" -> None
           [] outcome.body = "not JSON" -> "JSONDecodeError"
           [] outcome.body = "object without choices" -> "KeyError"
           [] outcome.body = "choices empty" -> "IndexError"
           [] outcome.body = "content null" -> "AttributeError"
           [] outcome.body = "choices null" -> "TypeError"

\* the result of the coroutine: [returns], [raises LLMServiceError] or the
\* exception no except clause names
_call_openrouter(outcome) ==
    LET exception == Raised(outcome)
    IN IF exception = None
       THEN [returns |-> Strip(outcome.content), raises |-> None, msg |-> None]
       ELSE IF IsInstance(exception, "HTTPStatusError")
       THEN [returns |-> None, raises |-> "LLMServiceError",
             msg |-> <<"OpenRouter API error: ", outcome.status>>]
       ELSE IF IsInstance(exception, "RequestError")
       THEN [returns |-> None, raises |-> "LLMServiceError",
             msg |-> <<"OpenRouter request failed: ", exception>>]
       ELSE IF \/ IsInstance(exception, "KeyError")
               \/ IsInstance(exception, "IndexError")
               \/ IsInstance(exception, "JSONDecodeError")
       THEN [returns |-> None, raises |-> "LLMServiceError",
             msg |-> <<"Invalid OpenRouter response: ", exception>>]
       ELSE [returns |-> None, raises |-> exception, msg |-> None]

(***************************************************************************)
(* The requests.  llm_resp is what the last finished request gave its      *)
(* caller: op, the request, the LLMResponse returned or the exception      *)
(* raised, and what the request did on its way (whether it looked into the *)
(* cache, and the outcome of its external call, NoCall without one).       *)
(***************************************************************************)
LLMIdle == llm_resp.op = "none"

NoCall == [kind |-> "no call"]

Returns(request, response, consulted, outcome) ==
    [op |-> request.op, request |-> request, raised |-> None, response |-> response,
     consulted |-> consulted, outcome |-> outcome]

Raises(request, exception, outcome) ==
    [op |-> request.op, request |-> request, raised |-> exception, response |-> None,
     consulted |-> TRUE, outcome |-> outcome]

\* Generate with the fallback of a disabled adapter stored under the key
GenerateStoringFallback(request) ==
    IF ~enabled
    THEN /\ llm_resp' = Returns(request, FallbackOf(request), FALSE, NoCall)
         /\ cache' = (CacheKeyOf(request) :> FallbackOf(request).text) @@ cache
         /\ UNCHANGED inflight
    ELSE LET cache_key == CacheKeyOf(request)
         IN IF cache_key \in DOMAIN cache
            THEN /\ llm_resp' = Returns(request,
                                    LLMResponse(cache[cache_key], LLM_MODEL, TRUE, NoneStr),
                                    TRUE, NoCall)
                 /\ UNCHANGED <<cache, inflight>>
            ELSE /\ BagCardinality(inflight) < MaxInFlight
                 /\ inflight' = inflight (+) SetToBag({request})
                 /\ UNCHANGED <<cache, llm_resp>>

\* generate_* up to the await of _call_openrouter
Generate(request) ==
    IF ~enabled
    THEN /\ llm_resp' = Returns(request, FallbackOf(request), FALSE, NoCall)
         /\ UNCHANGED <<cache, inflight>>
    ELSE LET cache_key == CacheKeyOf(request)
         IN IF cache_key \in DOMAIN cache
            THEN /\ llm_resp' = Returns(request,
                                    LLMResponse(cache[cache_key], LLM_MODEL, TRUE, NoneStr),
                                    TRUE, NoCall)
                 /\ UNCHANGED <<cache, inflight>>
            ELSE /\ BagCardinality(inflight) < MaxInFlight
                 /\ inflight' = inflight (+) SetToBag({request})
                 /\ UNCHANGED <<cache, llm_resp>>

GenerateRecommendationExplanation ==
    /\ LLMIdle
    /\ \E request \in RecommendationRequests : Generate(request)
    /\ UNCHANGED <<llm_enabled, api_key, storeVars, fresh>>

GenerateProfileSummary ==
    /\ LLMIdle
    /\ \E request \in ProfileRequests : Generate(request)
    /\ UNCHANGED <<llm_enabled, api_key, storeVars, fresh>>

\* history: the entry a request stores
StoredFor(request) == [key |-> CacheKeyOf(request), reviewer_id |-> request.profile.reviewer_id]

\* generate_* from the await on: the external call is over
CallOpenRouterDone ==
    /\ LLMIdle
    /\ \E request \in BagToSet(inflight), outcome \in Outcomes :
        LET result == _call_openrouter(outcome)
        IN /\ inflight' = inflight (-) SetToBag({request})
           /\ IF result.raises = None
              THEN /\ cache' = (CacheKeyOf(request) :> result.returns) @@ cache
                   /\ llm_resp' = Returns(request,
                                      LLMResponse(result.returns, LLM_MODEL, FALSE, NoneStr),
                                      TRUE, outcome)
                   /\ fresh' = fresh \cup {StoredFor(request)}
              ELSE IF result.raises = "LLMServiceError"
              THEN /\ llm_resp' = Returns(request,
                                      [FallbackOf(request) EXCEPT !.error = result.msg],
                                      TRUE, outcome)
                   /\ UNCHANGED <<cache, fresh>>
              ELSE /\ llm_resp' = Raises(request, result.raises, outcome)
                   /\ UNCHANGED <<cache, fresh>>
    /\ UNCHANGED <<llm_enabled, api_key, storeVars>>

\* the caller has the result
LLMReturn ==
    /\ ~LLMIdle
    /\ llm_resp' = [op |-> "none"]
    /\ UNCHANGED <<llm_enabled, api_key, cache, inflight, storeVars, fresh>>

\* the characters of a hexdigest
HexDigits == {"0", "1", "2", "3", "4", "5", "6", "7", "8", "9", "a", "b", "c", "d", "e", "f"}

\* reviewer_id in k, k a hexdigest: a substring test on 32 characters of
\* HexDigits.  An id with another character (the '-' of a uuid4 string, the
\* 'r' of the ids here) occurs in no digest; for an id of hexadecimal digits
\* only it would depend on the digest, which is not computed here
InDigest(reviewer_id, k) ==
    CASE \E i \in 1..Len(Chars(reviewer_id)) : Chars(reviewer_id)[i] \notin HexDigits -> FALSE

\* LLMService.clear_cache
ClearCache ==
    /\ LLMIdle
    /\ cache' = <<>>
    /\ fresh' = {}
    /\ llm_resp' = [op |-> "clear"]
    /\ UNCHANGED <<llm_enabled, api_key, inflight, storeVars>>

\* LLMService.invalidate_reviewer_cache
InvalidateReviewerCache ==
    /\ LLMIdle
    /\ \E reviewer_id \in RequestReviewerIds :
        LET keys_to_remove == {k \in DOMAIN cache : InDigest(reviewer_id, k)}
        IN /\ cache' = [k \in DOMAIN cache \ keys_to_remove |-> cache[k]]
           /\ fresh' = {entry \in fresh : entry.key \notin keys_to_remove}
           /\ llm_resp' = [op |-> "invalidate", reviewer_id |-> reviewer_id]
    /\ UNCHANGED <<llm_enabled, api_key, inflight, storeVars>>

\* GET /recommendations/{reviewer_id}/profile with include_llm, served alone,
\* for a reviewer with evaluations (who exists, evaluations.reviewer_id being
\* a foreign key): the profile is built from the rows as they are now, and
\* generate_profile_summary is called with it when the adapter is available;
\* the external call of a miss is over before the next request
GetProfileSummary ==
    /\ Idle
    /\ LLMIdle
    /\ enabled
    /\ \E reviewer_id \in Reviewers :
       \E evals \in BagOrderings(EvaluationsOf(reviewer_id)), outcome \in Outcomes :
        LET request == [op |-> "profile",
                        reviewer_name |-> IF reviewer_id = "r1" THEN "Ann" ELSE "Bob",
                        profile |-> build_preference_profile(reviewer_id, evals)]
            cache_key == CacheKeyOf(request)
            result == _call_openrouter(outcome)
        IN /\ request.profile.evaluation_count > 0
           /\ IF cache_key \in DOMAIN cache
              THEN /\ outcome = CHOOSE o \in Outcomes : TRUE
                   /\ llm_resp' = Returns(request,
                                      LLMResponse(cache[cache_key], LLM_MODEL, TRUE, NoneStr),
                                      TRUE, NoCall)
                   /\ UNCHANGED <<cache, fresh>>
              ELSE IF result.raises = None
              THEN /\ cache' = (cache_key :> result.returns) @@ cache
                   /\ fresh' = fresh \cup {StoredFor(request)}
                   /\ llm_resp' = Returns(request,
                                      LLMResponse(result.returns, LLM_MODEL, FALSE, NoneStr),
                                      TRUE, outcome)
              ELSE IF result.raises = "LLMServiceError"
              THEN /\ llm_resp' = Returns(request,
                                      [FallbackOf(request) EXCEPT !.error = result.msg],
                                      TRUE, outcome)
                   /\ UNCHANGED <<cache, fresh>>
              ELSE /\ llm_resp' = Raises(request, result.raises, outcome)
                   /\ UNCHANGED <<cache, fresh>>
    /\ UNCHANGED <<llm_enabled, api_key, inflight, storeVars>>

\* LLMService.__init__ under each setting of llm_enabled and openrouter_api_key
InitLLM ==
    /\ evaluations = EmptyBag
    /\ creating = EmptyBag
    /\ resp = [op |-> "none"]
    /\ llm_enabled \in BOOLEAN
    /\ api_key \in {"", "sk-or-1"}
    /\ cache = <<>>
    /\ inflight = EmptyBag
    /\ llm_resp = [op |-> "none"]
    /\ reviewers = <<>>
    /\ issued = 0
    /\ fresh = {}

NextLLM ==
    \/ GenerateRecommendationExplanation
    \/ GenerateProfileSummary
    \/ CallOpenRouterDone
    \/ ClearCache
    \/ InvalidateReviewerCache
    \/ LLMReturn

SpecLLM == InitLLM /\ [][NextLLM]_vars

\* the evaluation handlers and the profile summary endpoint, one request at
\* a time, on one process (get_llm_service() is one LLMService per process)
MaxSummaryEvals == 2

NextSummary ==
    \/ LLMIdle /\ BagCardinality(evaluations) < MaxSummaryEvals /\ CreateEvaluation
    \/ LLMIdle /\ UpdateEvaluation
    \/ LLMIdle /\ DeleteEvaluation
    \/ Return
    \/ GetProfileSummary
    \/ LLMReturn

SpecSummary == InitLLM /\ [][NextSummary]_vars

(***************************************************************************)
(* _cache_key on its own: the function takes any prefix and any strings,   *)
(* so it is called here on ids with and without the separator.  llm_resp   *)
(* holds the last call with its key and, in earlier, the call before it.   *)
(***************************************************************************)
KeyPrefixes == {"rec", "profile", "rec:a"}

KeyIds == {"a", "b", "c", "a:b", "b:c"}

KeyArgs == {<<x>> : x \in KeyIds} \cup {<<x, y>> : x \in KeyIds, y \in KeyIds}

\* LLMService._cache_key(prefix, *args)
CacheKey ==
    /\ llm_resp.op \in {"none", "key"}
    /\ \E prefix \in KeyPrefixes, args \in KeyArgs :
        llm_resp' = [op |-> "key", prefix |-> prefix, args |-> args,
                     key |-> _cache_key(prefix, args),
                     earlier |-> IF llm_resp.op = "key"
                                 THEN <<[prefix |-> llm_resp.prefix, args |-> llm_resp.args,
                                         key |-> llm_resp.key]>>
                                 ELSE <<>>]
    /\ UNCHANGED <<llm_enabled, api_key, cache, inflight, storeVars, fresh>>

NextKey ==
    \/ CacheKey
    \/ LLMReturn

SpecKey == Init /\ [][NextKey]_vars

(***************************************************************************)
(* What a response is checked against: the table itself.  A request is     *)
(* served in one step and the table does not change before Return, so in a *)
(* state whose resp is a response, evaluations is the table it was         *)
(* computed from.                                                          *)
(***************************************************************************)
RECURSIVE SumFn(_)
SumFn(f) ==
    IF DOMAIN f = {} THEN 0
    ELSE LET x == CHOOSE x \in DOMAIN f : TRUE
         IN f[x] + SumFn([y \in DOMAIN f \ {x} |-> f[y]])

RowsOf(reviewer_id) == {row \in BagToSet(evaluations) : row.reviewer_id = reviewer_id}
CountOf(reviewer_id) == SumFn([row \in RowsOf(reviewer_id) |-> evaluations[row]])

\* the weight the rating table {1:-2, 2:-1, 3:0, 4:+1, 5:+2} gives a row, once per copy
StatedWeight == <<-2, -1, 0, 1, 2>>
RowWeight(row) == evaluations[row] * StatedWeight[row.rating]

NotesOf(fragrance_id) == Range(Catalog[fragrance_id].notes)
AccordsOf(fragrance_id) == Range(Catalog[fragrance_id].accords)
AccordTypesOf(fragrance_id) == {a.accord_type : a \in AccordsOf(fragrance_id)}
IntensityOf(fragrance_id, accord_type) ==
    SumFn([a \in {b \in AccordsOf(fragrance_id) : b.accord_type = accord_type} |-> a.intensity])

\* sum of w over the evaluated fragrances containing the note
NoteSum(reviewer_id, note_id) ==
    SumFn([row \in RowsOf(reviewer_id) |->
            IF note_id \in NotesOf(row.fragrance_id) THEN RowWeight(row) ELSE 0])

\* sum of w * intensity, in tenths
AccordSum(reviewer_id, accord_type) ==
    SumFn([row \in RowsOf(reviewer_id) |->
            RowWeight(row) * IntensityOf(row.fragrance_id, accord_type)])

\* sum of w over the primary families plus 0.5 * w over the subfamilies, in halves
FamilySum(reviewer_id, key) ==
    SumFn([row \in RowsOf(reviewer_id) |->
            (IF Catalog[row.fragrance_id].primary_family = key THEN 2 * RowWeight(row) ELSE 0)
            + (IF Catalog[row.fragrance_id].subfamily = key THEN RowWeight(row) ELSE 0)])

IsDict(d) == Len(d) = Cardinality(DictKeys(d))
Absent == "absent"

Recommended == resp.op = "recommend" /\ resp.status = 200
Returned == {resp.recommendations[i] : i \in 1..Len(resp.recommendations)}

(***************************************************************************)
(* C1: with exclude_rated the candidates scored are exactly the catalog    *)
(* minus the fragrances the reviewer has an evaluation for, so no rated id *)
(* is returned; without it the candidates are the whole catalog; and the   *)
(* result is made of candidates only, as many as the limit allows.         *)
(***************************************************************************)
C1_CandidatesAreCatalogMinusRated ==
    Recommended =>
        LET rated == {row.fragrance_id : row \in RowsOf(resp.reviewer_id)}
            ids == {r.fragrance_id : r \in Returned}
        IN /\ resp.exclude_rated => resp.scored = Fragrances \ rated /\ ids \cap rated = {}
           /\ ~resp.exclude_rated => resp.scored = Fragrances
           /\ ids \subseteq resp.scored
           /\ Cardinality(ids) = Len(resp.recommendations)
           /\ Len(resp.recommendations) = Min(resp.limit, Cardinality(resp.scored))

\* exclude_rated, and a returned fragrance that only another reviewer has rated
C1_Witness ==
    /\ Recommended /\ resp.exclude_rated
    /\ \E r \in Returned : \E row \in BagToSet(evaluations) :
          row.fragrance_id = r.fragrance_id /\ row.reviewer_id # resp.reviewer_id
    /\ \E row \in RowsOf(resp.reviewer_id) : row.fragrance_id \notin resp.scored

(***************************************************************************)
(* C2: in the returned list no vetoed recommendation precedes a non-vetoed *)
(* one, and among recommendations of the same vetoed flag the match score  *)
(* never increases.                                                        *)
(***************************************************************************)
C2_NonVetoedFirstThenScore ==
    Recommended =>
        \A i, j \in 1..Len(resp.recommendations) :
            i < j =>
                LET a == resp.recommendations[i]
                    b == resp.recommendations[j]
                IN /\ ~(a.vetoed /\ ~b.vetoed)
                   /\ a.vetoed = b.vetoed => ~ScoreLess(a.match_score, b.match_score)

\* a non-vetoed recommendation below the vetoed floor 0.1, returned before a vetoed one,
\* and two non-vetoed recommendations of different scores
C2_Witness ==
    /\ Recommended
    /\ \E i, j \in 1..Len(resp.recommendations) :
          /\ i < j
          /\ ~resp.recommendations[i].vetoed /\ resp.recommendations[i].match_percent < 10
          /\ resp.recommendations[j].vetoed
    /\ \E i, j \in 1..Len(resp.recommendations) :
          /\ i < j
          /\ ~resp.recommendations[i].vetoed /\ ~resp.recommendations[j].vetoed
          /\ ScoreLess(resp.recommendations[j].match_score, resp.recommendations[i].match_score)

(***************************************************************************)
(* C3: two returned recommendations with the same vetoed flag and the same *)
(* match score stand in ascending fragrance name order and, the names      *)
(* equal, in ascending fragrance id order.                                 *)
(***************************************************************************)
C3_TiesByNameThenId ==
    Recommended =>
        \A i, j \in 1..Len(resp.recommendations) :
            LET a == resp.recommendations[i]
                b == resp.recommendations[j]
            IN (/\ i < j
                /\ a.vetoed = b.vetoed
                /\ ~ScoreLess(a.match_score, b.match_score)
                /\ ~ScoreLess(b.match_score, a.match_score))
               => \/ StrLt(a.fragrance_name, b.fragrance_name)
                  \/ /\ a.fragrance_name = b.fragrance_name
                     /\ StrLt(a.fragrance_id, b.fragrance_id)

(***************************************************************************)
(* C4: a returned recommendation is vetoed if and only if its fragrance    *)
(* has a note whose affinity is strictly below -3; a vetoed one has score  *)
(* 0.1, percent 10, no components, and names one of the offending notes; a *)
(* non-vetoed one names no note.                                           *)
(***************************************************************************)
C4_VetoIffNoteBelowThreshold ==
    Recommended =>
        \A r \in Returned :
            LET offending == {n \in NotesOf(r.fragrance_id) :
                                NoteSum(resp.reviewer_id, n) < -3}
            IN /\ r.vetoed <=> offending # {}
               /\ r.vetoed =>
                    /\ r.match_score = [kind |-> "literal", percent |-> 10]
                    /\ r.match_percent = 10
                    /\ r.components = <<>>
                    /\ \E n \in offending :
                          r.veto_reason = <<"Contains ", NoteName[n], " which you dislike">>
               /\ ~r.vetoed => r.veto_reason = None

\* a vetoed recommendation, and a non-vetoed one whose fragrance has a note at
\* exactly -3
C4_Witness ==
    /\ Recommended
    /\ \E r \in Returned : r.vetoed
    /\ \E r \in Returned :
          /\ ~r.vetoed
          /\ \E n \in NotesOf(r.fragrance_id) : NoteSum(resp.reviewer_id, n) = -3

(***************************************************************************)
(* C5: a recommendation request fails with InsufficientData exactly when   *)
(* the reviewer has fewer than 3 evaluations, and then it returns no list  *)
(* and has scored no candidate.                                            *)
(***************************************************************************)
C5_InsufficientDataIffFewerThanThree ==
    resp.op = "recommend" =>
        LET failed == resp.status = 400
        IN /\ failed <=> CountOf(resp.reviewer_id) < 3
           /\ failed => /\ resp.error.type = "InsufficientDataError"
                         /\ resp.recommendations = None
                         /\ resp.scored = {}
           /\ ~failed => resp.status = 200 /\ resp.error = None

\* the failure of a reviewer with two evaluations, neither of them rated 3
C5_Witness ==
    /\ resp.op = "recommend" /\ resp.status = 400
    /\ CountOf(resp.reviewer_id) = 2
    /\ \A row \in RowsOf(resp.reviewer_id) : row.rating # 3

(***************************************************************************)
(* C6: the InsufficientData failure carries, as values of its own, the     *)
(* reviewer's current evaluation count and the required minimum 3.         *)
(***************************************************************************)
C6_FailureCarriesCurrentAndRequired ==
    (resp.op = "recommend" /\ resp.status = 400) =>
        /\ "current" \in DOMAIN resp.error
        /\ "required" \in DOMAIN resp.error
        /\ resp.error.current = CountOf(resp.reviewer_id)
        /\ resp.error.required = 3

(***************************************************************************)
(* C7: the profile holds exactly the weighted sums over the reviewer's     *)
(* evaluations: per note the sum of w over the fragrances containing it,   *)
(* per accord the sum of w * intensity, per family key the sum of w over   *)
(* the primary families plus 0.5 * w over the subfamilies, keys only for   *)
(* what an evaluated fragrance has, and the number of evaluations.         *)
(***************************************************************************)
C7_ProfileIsTheWeightedSums ==
    resp.op = "profile" =>
        LET r == resp.reviewer_id
            p == resp.profile
            rated == {row.fragrance_id : row \in RowsOf(r)}
        IN /\ p.evaluation_count = CountOf(r)
           /\ IsDict(p.note_affinities) /\ IsDict(p.accord_affinities)
           /\ IsDict(p.family_affinities)
           /\ DictKeys(p.note_affinities) = UNION {NotesOf(f) : f \in rated}
           /\ DictKeys(p.accord_affinities) = UNION {AccordTypesOf(f) : f \in rated}
           /\ DictKeys(p.family_affinities) =
                {Catalog[f].primary_family : f \in rated} \cup {Catalog[f].subfamily : f \in rated}
           /\ \A n \in DictKeys(p.note_affinities) :
                 DictGet(p.note_affinities, n, Absent) = NoteSum(r, n)
           /\ \A a \in DictKeys(p.accord_affinities) :
                 DictGet(p.accord_affinities, a, Absent) = AccordSum(r, a)
           /\ \A k \in DictKeys(p.family_affinities) :
                 DictGet(p.family_affinities, k, Absent) = FamilySum(r, k)

\* a profile over evaluations of different weights, one of them of a fragrance whose
\* primary family is its subfamily, and a note two evaluated fragrances share
C7_Witness ==
    /\ resp.op = "profile"
    /\ \E row \in RowsOf(resp.reviewer_id) :
          /\ Catalog[row.fragrance_id].primary_family = Catalog[row.fragrance_id].subfamily
          /\ row.rating \in {1, 5}
    /\ \E x, y \in RowsOf(resp.reviewer_id) :
          /\ x.fragrance_id # y.fragrance_id /\ x.rating # y.rating
          /\ x.rating # 3 /\ y.rating # 3
          /\ NotesOf(x.fragrance_id) \cap NotesOf(y.fragrance_id) # {}
    /\ \E row \in RowsOf(resp.reviewer_id) : AccordsOf(row.fragrance_id) # {}

\* the profile of a reviewer without evaluations: empty maps, count 0
C7_EmptyWitness ==
    /\ resp.op = "profile"
    /\ RowsOf(resp.reviewer_id) = {}
    /\ resp.profile.note_affinities = <<>>

(***************************************************************************)
(* C8: a non-vetoed recommendation carries the components notes = mean of  *)
(* the note affinities of the fragrance's notes, accords = mean of         *)
(* affinity * intensity of its accords, family and subfamily = the family  *)
(* affinities of its two keys, each read as 0 where the profile has no     *)
(* entry and 0 for a fragrance without notes or accords, and raw =         *)
(* 0.40 notes + 0.30 accords + 0.20 family + 0.10 subfamily.               *)
(***************************************************************************)
C8_ComponentsAreTheWeightedMeans ==
    Recommended =>
        \A r \in Returned :
            ~r.vetoed =>
                LET reviewer_id == resp.reviewer_id
                    f == r.fragrance_id
                    notes == IF NotesOf(f) = {} THEN Rat(0, 1)
                             ELSE Rat(SumFn([n \in NotesOf(f) |-> NoteSum(reviewer_id, n)]),
                                      Cardinality(NotesOf(f)))
                    accords == IF AccordsOf(f) = {} THEN Rat(0, 1)
                               ELSE Rat(SumFn([a \in AccordsOf(f) |->
                                            AccordSum(reviewer_id, a.accord_type) * a.intensity]),
                                        100 * Cardinality(AccordsOf(f)))
                    family == Rat(FamilySum(reviewer_id, Catalog[f].primary_family), 2)
                    subfamily == Rat(FamilySum(reviewer_id, Catalog[f].subfamily), 2)
                    raw == RatAdd(RatAdd(RatAdd(RatScale(40, 100, notes),
                                                RatScale(30, 100, accords)),
                                         RatScale(20, 100, family)),
                                  RatScale(10, 100, subfamily))
                IN r.components = [notes |-> notes, accords |-> accords, family |-> family,
                                   subfamily |-> subfamily, raw |-> raw]

\* non-vetoed recommendations of a fragrance without notes, of one without accords,
\* and of one with four non-zero components that has an accord the profile lacks
C8_Witness ==
    /\ Recommended
    /\ \E r \in Returned : ~r.vetoed /\ NotesOf(r.fragrance_id) = {}
    /\ \E r \in Returned :
          ~r.vetoed /\ AccordsOf(r.fragrance_id) = {} /\ r.components.notes.num # 0
    /\ \E r \in Returned :
          /\ ~r.vetoed
          /\ r.components.notes.num # 0 /\ r.components.accords.num # 0
          /\ r.components.family.num # 0 /\ r.components.subfamily.num # 0
          /\ r.components.family # r.components.subfamily
          /\ \E a \in AccordTypesOf(r.fragrance_id) :
                \A row \in RowsOf(resp.reviewer_id) : a \notin AccordTypesOf(row.fragrance_id)

(***************************************************************************)
(* C9: a request whose external call failed (an HTTP error status, a       *)
(* transport error, a timeout, a body that is not JSON or lacks the text)  *)
(* raises nothing to its caller and returns the fallback: model            *)
(* 'fallback', cached false, error populated.                              *)
(***************************************************************************)
C9_FailedCallGivesFallbackWithError ==
    LET outcome == llm_resp.outcome
        failed == \/ outcome.kind \in {"ConnectError", "ReadTimeout"}
                  \/ outcome.kind = "body" /\ outcome.status >= 400
                  \/ outcome.kind = "body" /\ outcome.body # "content"
    IN (llm_resp.op \in {"rec", "profile"} /\ failed) =>
          /\ llm_resp.raised = None
          /\ llm_resp.response.model = "fallback"
          /\ llm_resp.response.cached = FALSE
          /\ llm_resp.response.error # NoneStr

(***************************************************************************)
(* C10: an adapter whose llm_enabled is false or whose token is empty      *)
(* answers every request with the fallback (model 'fallback', cached       *)
(* false, no error) without looking into the cache and without an         *)
(* external call, so its cache stays empty and no call is ever pending.    *)
(***************************************************************************)
C10_DisabledAdapterAlwaysFallsBack ==
    ~(llm_enabled /\ api_key # "") =>
        /\ DOMAIN cache = {}
        /\ inflight = EmptyBag
        /\ llm_resp.op \in {"rec", "profile"} =>
              /\ llm_resp.raised = None
              /\ llm_resp.response.model = "fallback"
              /\ llm_resp.response.cached = FALSE
              /\ llm_resp.response.error = NoneStr
              /\ ~llm_resp.consulted
              /\ llm_resp.outcome = NoCall

\* llm_enabled is true and the token is empty: a profile request got the fallback
C10_Witness ==
    /\ llm_enabled /\ api_key = ""
    /\ llm_resp.op = "profile"
    /\ llm_resp.response.model = "fallback"

(***************************************************************************)
(* Steps of the adapter, told apart by what they do to inflight and to     *)
(* llm_resp.                                                               *)
(***************************************************************************)
\* a request ends in this step without an external call
EndsWithoutCall ==
    /\ LLMIdle
    /\ llm_resp'.op \in {"rec", "profile"}
    /\ inflight' = inflight

\* the external call of a request ends in this step
CallEnds ==
    /\ LLMIdle
    /\ llm_resp'.op \in {"rec", "profile"}
    /\ inflight' # inflight

\* the cache is cleared or invalidated in this step
CacheDropped == llm_resp'.op \in {"clear", "invalidate"}

\* every entry of the cache is still there, with its text
EntriesKept == \A k \in DOMAIN cache : k \in DOMAIN cache' /\ cache'[k] = cache[k]

\* C11: with the adapter enabled, a request whose key is present returns the
\* stored text with cached=true and the configured model and makes no
\* external call; a request whose key is absent makes an external call and,
\* when it succeeds, stores the text under the key and returns it with
\* cached=false; and a stored text stays under its key, so that later
\* requests with the key return it, until the cache is cleared or invalidated.
C11_HitReturnsStoredTextUntilDropped ==
    [][/\ (enabled /\ EndsWithoutCall) =>
            LET key == CacheKeyOf(llm_resp'.request)
            IN /\ key \in DOMAIN cache
               /\ llm_resp'.response = LLMResponse(cache[key], LLM_MODEL, TRUE, NoneStr)
               /\ llm_resp'.outcome = NoCall
               /\ cache' = cache
       /\ (enabled /\ LLMIdle /\ inflight' # inflight /\ llm_resp' = llm_resp) =>
            \E request \in RecommendationRequests \cup ProfileRequests :
                /\ CacheKeyOf(request) \notin DOMAIN cache
                /\ inflight' = inflight (+) SetToBag({request})
       /\ (CallEnds /\ llm_resp'.raised = None /\ llm_resp'.response.error = NoneStr) =>
            LET key == CacheKeyOf(llm_resp'.request)
            IN /\ llm_resp'.outcome # NoCall
               /\ key \in DOMAIN cache'
               /\ llm_resp'.response =
                      LLMResponse(cache'[key], LLM_MODEL, FALSE, NoneStr)
       /\ ~CacheDropped => EntriesKept]_vars

\* C11 without its last part: hits, misses and the storing of a successful
\* call's text
C11_HitAndMissParts ==
    [][/\ (enabled /\ EndsWithoutCall) =>
            LET key == CacheKeyOf(llm_resp'.request)
            IN /\ key \in DOMAIN cache
               /\ llm_resp'.response = LLMResponse(cache[key], LLM_MODEL, TRUE, NoneStr)
               /\ llm_resp'.outcome = NoCall
               /\ cache' = cache
       /\ (enabled /\ LLMIdle /\ inflight' # inflight /\ llm_resp' = llm_resp) =>
            \E request \in RecommendationRequests \cup ProfileRequests :
                /\ CacheKeyOf(request) \notin DOMAIN cache
                /\ inflight' = inflight (+) SetToBag({request})
       /\ (CallEnds /\ llm_resp'.raised = None /\ llm_resp'.response.error = NoneStr) =>
            LET key == CacheKeyOf(llm_resp'.request)
            IN /\ llm_resp'.outcome # NoCall
               /\ key \in DOMAIN cache'
               /\ llm_resp'.response =
                      LLMResponse(cache'[key], LLM_MODEL, FALSE, NoneStr)]_vars

\* C12: when requests with one cache key run at the same time, the entry of
\* the key is written once: a request whose external call ends when the key
\* already has a text leaves that text as it is.
C12_CompletionNeverOverwrites ==
    [][CallEnds =>
            LET key == CacheKeyOf(llm_resp'.request)
            IN key \in DOMAIN cache => cache'[key] = cache[key]]_vars

\* the cache keys of the requests made for a reviewer
KeysOfReviewer(reviewer_id) ==
    {CacheKeyOf(request) : request \in
        {q \in RecommendationRequests \cup ProfileRequests :
            q.profile.reviewer_id = reviewer_id}}

\* C13: after invalidate_reviewer_cache(r) no entry stored for reviewer r
\* (explanations of any fragrance, profile summary) remains, and every
\* entry stored for another reviewer is still there with its text.
C13_InvalidateRemovesExactlyTheReviewers ==
    [][llm_resp'.op = "invalidate" =>
            LET removed == KeysOfReviewer(llm_resp'.reviewer_id)
            IN /\ DOMAIN cache' \cap removed = {}
               /\ \A k \in DOMAIN cache \ removed :
                     k \in DOMAIN cache' /\ cache'[k] = cache[k]]_vars

\* C14: two computations of the cache key give the same key exactly when
\* the prefix and every id are identical, also for ids that contain ':'.
C14_CacheKeyInjective ==
    (llm_resp.op = "key" /\ llm_resp.earlier # <<>>) =>
        LET first == llm_resp.earlier[1]
        IN (llm_resp.key = first.key) <=>
              (llm_resp.prefix = first.prefix /\ llm_resp.args = first.args)

\* C14 on ids without the separator and the two prefixes the adapter uses
C14_InjectiveWithoutSeparator ==
    (llm_resp.op = "key" /\ llm_resp.earlier # <<>>) =>
        LET first == llm_resp.earlier[1]
            plain(call) == /\ call.prefix \in {"rec", "profile"}
                           /\ \A i \in 1..Len(call.args) : call.args[i] \in {"a", "b", "c"}
        IN (plain(llm_resp) /\ plain(first)) =>
              ((llm_resp.key = first.key) <=>
                  (llm_resp.prefix = first.prefix /\ llm_resp.args = first.args))

\* the number of rows the table holds for a pair
PairCount(reviewer_id, fragrance_id) ==
    LET rows == {row \in BagToSet(evaluations) :
                    row.reviewer_id = reviewer_id /\ row.fragrance_id = fragrance_id}
    IN SumFn([row \in rows |-> evaluations[row]])

\* C15: under every interleaving of create requests with updates and
\* deletes the table holds at most one evaluation per (reviewer_id,
\* fragrance_id), and a create answered 409 leaves the table unchanged.
C15_AtMostOneEvaluationPerPair ==
    [][/\ \A reviewer_id \in Reviewers : \A fragrance_id \in RatedBy(reviewer_id) :
            PairCount(reviewer_id, fragrance_id)' <= 1
       /\ (resp'.op = "create" /\ resp'.status = 409 /\ Idle) =>
            evaluations' = evaluations]_vars

\* C15 for create requests served one after the other
C15_OnePerPairServedAlone ==
    \A reviewer_id \in Reviewers : \A fragrance_id \in RatedBy(reviewer_id) :
        PairCount(reviewer_id, fragrance_id) <= 1

(***************************************************************************)
(* The profiles build_preference_profile returns for the table of the      *)
(* state, and what is read off a profile.                                  *)
(***************************************************************************)
\* the profiles of the reviewer, one per order the query may return the rows in
ProfilesOfTable(reviewer_id) ==
    {build_preference_profile(reviewer_id, evals) :
        evals \in BagOrderings(EvaluationsOf(reviewer_id))}

\* the two dicts hold the same keys with the same values
SameDict(d, e) == Range(d) = Range(e)

\* the (name, score) pairs of the notes of a profile
NamedNotes(profile) ==
    {<<NoteName[profile.note_affinities[i][1]], profile.note_affinities[i][2]>> :
        i \in 1..Len(profile.note_affinities)}

\* list holds, without repetition, Min(TOP_N, |items|) of the items, no item
\* left out has a higher score than one listed, and the scores do not ascend
IsTopDescending(list, items) ==
    /\ Range(list) \subseteq items
    /\ Len(list) = Cardinality(Range(list))
    /\ Len(list) = Min(TOP_N, Cardinality(items))
    /\ \A i, j \in 1..Len(list) : i < j => list[i][2] >= list[j][2]
    /\ \A x \in items \ Range(list) : \A i \in 1..Len(list) : x[2] <= list[i][2]

\* the same with the lowest scores, which do not descend
IsTopAscending(list, items) ==
    /\ Range(list) \subseteq items
    /\ Len(list) = Cardinality(Range(list))
    /\ Len(list) = Min(TOP_N, Cardinality(items))
    /\ \A i, j \in 1..Len(list) : i < j => list[i][2] <= list[j][2]
    /\ \A x \in items \ Range(list) : \A i \in 1..Len(list) : x[2] >= list[i][2]

\* C16: build_preference_profile gives the same profile for every order of
\* the same evaluations: the same affinity maps, the same evaluation_count
\* and the same top_liked_notes and top_disliked_notes as sequences.
C16_ProfileIndependentOfOrder ==
    resp.op = "profile" =>
        \A q \in ProfilesOfTable(resp.reviewer_id) :
            /\ SameDict(q.note_affinities, resp.profile.note_affinities)
            /\ SameDict(q.accord_affinities, resp.profile.accord_affinities)
            /\ SameDict(q.family_affinities, resp.profile.family_affinities)
            /\ q.evaluation_count = resp.profile.evaluation_count
            /\ q.top_liked_notes = resp.profile.top_liked_notes
            /\ q.top_disliked_notes = resp.profile.top_disliked_notes

\* C16 for the affinity maps and the count alone
C16_MapsIndependentOfOrder ==
    resp.op = "profile" =>
        \A q \in ProfilesOfTable(resp.reviewer_id) :
            /\ SameDict(q.note_affinities, resp.profile.note_affinities)
            /\ SameDict(q.accord_affinities, resp.profile.accord_affinities)
            /\ SameDict(q.family_affinities, resp.profile.family_affinities)
            /\ q.evaluation_count = resp.profile.evaluation_count

\* C17: top_liked_notes is the up to 5 notes of the highest strictly
\* positive affinities, in descending score order; top_disliked_notes the
\* up to 5 notes of the lowest strictly negative affinities, most negative
\* first; a note of affinity 0 is in neither; top_accords and top_families
\* of the summary are the 5 highest entries of accord_affinities and
\* family_affinities in descending order.
C17_TopListsAreTheExtremes ==
    resp.op = "profile" =>
        LET p == resp.profile
            liked == {x \in NamedNotes(p) : x[2] > 0}
            disliked == {x \in NamedNotes(p) : x[2] < 0}
            neutral == {x[1] : x \in {y \in NamedNotes(p) : y[2] = 0}}
            listed == {x[1] : x \in Range(p.top_liked_notes) \cup Range(p.top_disliked_notes)}
        IN /\ IsTopDescending(p.top_liked_notes, liked)
           /\ IsTopAscending(p.top_disliked_notes, disliked)
           /\ neutral \cap listed = {}
           /\ resp.summary.top_liked_notes = p.top_liked_notes
           /\ resp.summary.top_disliked_notes = p.top_disliked_notes
           /\ IsTopDescending(resp.summary.top_accords, Range(p.accord_affinities))
           /\ IsTopDescending(resp.summary.top_families, Range(p.family_affinities))

\* a profile with six liked notes, of which five are listed, a note of
\* affinity 0, and six accords, of which five are listed
C17_Witness ==
    /\ resp.op = "profile"
    /\ Cardinality({x \in NamedNotes(resp.profile) : x[2] > 0}) > TOP_N
    /\ Len(resp.profile.top_liked_notes) = TOP_N
    /\ \E x \in NamedNotes(resp.profile) : x[2] = 0
    /\ Len(resp.profile.accord_affinities) > TOP_N
    /\ Len(resp.summary.top_accords) = TOP_N
    /\ \E i, j \in 1..TOP_N :
          resp.summary.top_accords[i][2] > resp.summary.top_accords[j][2]

\* a profile with six disliked notes of two different affinities, of which
\* five are listed
C17_DislikedWitness ==
    /\ resp.op = "profile"
    /\ Cardinality({x \in NamedNotes(resp.profile) : x[2] < 0}) > TOP_N
    /\ Len(resp.profile.top_disliked_notes) = TOP_N
    /\ resp.profile.top_disliked_notes[1][2] < resp.profile.top_disliked_notes[TOP_N][2]

\* among entries of equal score the names ascend, and an item left out that
\* has the score of a listed one has a greater name
TiesByName(list, items) ==
    /\ \A i, j \in 1..Len(list) :
          (i < j /\ list[i][2] = list[j][2]) => StrLt(list[i][1], list[j][1])
    /\ \A x \in items \ Range(list) : \A i \in 1..Len(list) :
          x[2] = list[i][2] => StrLt(list[i][1], x[1])

\* C18: in top_liked_notes, top_disliked_notes, top_accords and top_families
\* entries of equal score stand in ascending name order, and of a tie at
\* the cut the smallest names are kept.
C18_TiesOrderedByName ==
    resp.op = "profile" =>
        LET p == resp.profile
        IN /\ TiesByName(p.top_liked_notes, {x \in NamedNotes(p) : x[2] > 0})
           /\ TiesByName(p.top_disliked_notes, {x \in NamedNotes(p) : x[2] < 0})
           /\ TiesByName(resp.summary.top_accords, Range(p.accord_affinities))
           /\ TiesByName(resp.summary.top_families, Range(p.family_affinities))

\* the names of the notes of the fragrance whose affinity, summed over the
\* table, is below the veto threshold
OffendingNames(reviewer_id, fragrance_id) ==
    {NoteName[n] : n \in {m \in NotesOf(fragrance_id) :
                            NoteSum(reviewer_id, m) < VETO_THRESHOLD}}

\* C19: the note named in the veto_reason of a vetoed recommendation is,
\* of the notes of the fragrance below the veto threshold, the one whose
\* name is first in ascending order.
C19_VetoNoteIsFirstByName ==
    Recommended =>
        \A r \in Returned :
            r.vetoed =>
                LET names == OffendingNames(resp.reviewer_id, r.fragrance_id)
                IN /\ r.veto_reason[2] \in names
                   /\ \A other \in names \ {r.veto_reason[2]} :
                         StrLt(r.veto_reason[2], other)

\* C19 without the order: the note named is one of the offending notes
C19_VetoNoteIsOffending ==
    Recommended =>
        \A r \in Returned :
            r.vetoed =>
                r.veto_reason[2] \in OffendingNames(resp.reviewer_id, r.fragrance_id)

\* the rows with one more row read at position pos
InsertAt(evals, pos, row) ==
    SubSeq(evals, 1, pos - 1) \o <<row>> \o SubSeq(evals, pos, Len(evals))

\* the two dicts give the same value for every key, a missing key read as 0
SameAffinities(d, e) ==
    \A k \in DictKeys(d) \cup DictKeys(e) : DictGet(d, k, 0) = DictGet(e, k, 0)

\* the affinities of the profiles are the same, the second has one more
\* evaluation, and every fragrance gets the same match result from both
NeutralForScores(before, after) ==
    /\ SameAffinities(before.note_affinities, after.note_affinities)
    /\ SameAffinities(before.accord_affinities, after.accord_affinities)
    /\ SameAffinities(before.family_affinities, after.family_affinities)
    /\ after.evaluation_count = before.evaluation_count + 1
    /\ \A f \in Fragrances :
          calculate_match_score(after, Catalog[f]) = calculate_match_score(before, Catalog[f])

\* C20: an evaluation of rating 3 more in a reviewer's rating set leaves
\* every note, accord and family affinity (a missing key read as 0) and
\* both top_liked_notes and top_disliked_notes as they are, with
\* evaluation_count one higher, so every candidate's score is unchanged.
C20_NeutralRatingChangesNothing ==
    resp.op = "profile" =>
        LET r == resp.reviewer_id
        IN \A evals \in BagOrderings(EvaluationsOf(r)) :
           \A f \in Fragrances \ RatedIds(r) :
           \A pos \in 1..(Len(evals) + 1) :
              LET before == build_preference_profile(r, evals)
                  after == build_preference_profile(r, InsertAt(evals, pos, Row(r, f, 3)))
              IN /\ NeutralForScores(before, after)
                 /\ after.top_liked_notes = before.top_liked_notes
                 /\ after.top_disliked_notes = before.top_disliked_notes

\* C20 without the two lists
C20_NeutralRatingKeepsAffinitiesAndScores ==
    resp.op = "profile" =>
        LET r == resp.reviewer_id
        IN \A evals \in BagOrderings(EvaluationsOf(r)) :
           \A f \in Fragrances \ RatedIds(r) :
           \A pos \in 1..(Len(evals) + 1) :
              NeutralForScores(build_preference_profile(r, evals),
                               build_preference_profile(r, InsertAt(evals, pos, Row(r, f, 3))))

\* the lists get_recommendations may return to a call with the reviewer,
\* limit and exclude_rated given, one per order of the candidates query
ListsFor(reviewer_id, limit, exclude_rated) ==
    LET profile == CHOOSE p \in ProfilesFor(reviewer_id) : TRUE
        match == MatchTable(profile, Fragrances)
    IN {Truncate(SortRecommendations(ScoreCandidates(match, candidates)), limit) :
            candidates \in Orderings(CandidateIds(reviewer_id, exclude_rated))}

\* C21: with catalog and ratings unchanged, the first k items of a call
\* with limit N are the first k items of a separate call with limit M, for
\* k <= N <= M; a call returns min(limit, number of candidates) items and
\* no fragrance twice.
C21_LimitsGivePrefixes ==
    Recommended =>
        /\ Len(resp.recommendations) = Min(resp.limit, Cardinality(resp.scored))
        /\ \A i, j \in 1..Len(resp.recommendations) :
              i # j => resp.recommendations[i].fragrance_id
                          # resp.recommendations[j].fragrance_id
        /\ \A M \in resp.limit..MaxLimit :
           \A other \in ListsFor(resp.reviewer_id, M, resp.exclude_rated) :
           \A k \in 1..Len(resp.recommendations) :
              SliceTo(other, k) = SliceTo(resp.recommendations, k)

\* C21 for two calls whose candidates queries return the rows in one order
C21_PrefixesOfOneCandidateOrder ==
    Recommended =>
        /\ Len(resp.recommendations) = Min(resp.limit, Cardinality(resp.scored))
        /\ \A i, j \in 1..Len(resp.recommendations) :
              i # j => resp.recommendations[i].fragrance_id
                          # resp.recommendations[j].fragrance_id
        /\ \A M \in resp.limit..MaxLimit :
           \E other \in ListsFor(resp.reviewer_id, M, resp.exclude_rated) :
           \A k \in 1..Len(resp.recommendations) :
              SliceTo(other, k) = SliceTo(resp.recommendations, k)

\* C22: for every profile and every fragrance that is not vetoed, whatever
\* the magnitude of raw, computing the score raises no error, the score
\* lies strictly between 0 and 1, and score_percent is floor(score * 100).
C22_ScoreStrictlyBetweenZeroAndOne ==
    (resp.op = "score" /\ ~resp.result.vetoed) =>
        /\ "raises" \notin DOMAIN resp.result
        /\ resp.result.score.kind = "logistic"
        /\ resp.result.score_percent \in 0..99
        /\ resp.result.score_percent = 0
              \/ LogisticAtLeast(resp.result.score.raw, resp.result.score_percent)
        /\ resp.result.score_percent = 99
              \/ ~LogisticAtLeast(resp.result.score.raw, resp.result.score_percent + 1)

\* C22 for raw between -709 and 36
C22_ModerateRawScores ==
    (resp.op = "score" /\ ~resp.result.vetoed) =>
        LET f == Catalog[resp.fragrance_id]
            raw == 2 * DictGet(resp.profile.family_affinities, f.primary_family, 0)
                    + DictGet(resp.profile.family_affinities, f.subfamily, 0)
        IN (raw > -14180 /\ raw < 720) =>
              /\ "raises" \notin DOMAIN resp.result
              /\ resp.result.score.kind = "logistic"
              /\ resp.result.score_percent \in 0..99

\* C23: a recommendation request that names an id no reviewer has is
\* answered with ReviewerNotFound, a not-found error, and neither with
\* InsufficientData nor with a list.
C23_UnknownReviewerIsNotFound ==
    (resp.op = "recommend" /\ resp.reviewer_id \notin Reviewers) =>
        /\ resp.status = 404
        /\ resp.recommendations = None

\* C24: when the external call of a request is cancelled, the request no
\* longer holds its connection, its caller gets the fallback instead of the
\* cancellation, and the cache is as it was.
C24_CancelledCallGivesFallback ==
    [][(CallEnds /\ llm_resp'.outcome.kind = "CancelledError") =>
            /\ inflight' = inflight (-) SetToBag({llm_resp'.request})
            /\ cache' = cache
            /\ llm_resp'.raised = None
            /\ llm_resp'.response.model = "fallback"]_vars

\* C24 without the fallback: the connection is given up, the cache is kept
C24_CancelledCallReleasesAndKeepsCache ==
    [][(CallEnds /\ llm_resp'.outcome.kind = "CancelledError") =>
            /\ inflight' = inflight (-) SetToBag({llm_resp'.request})
            /\ cache' = cache]_vars

\* C25: the fallback explanation is the fixed conflict line for a vetoed
\* recommendation; otherwise, when notes of top_liked_notes (any of its up
\* to 5 entries) equal, case-insensitively, a top, heart or base note of the
\* fragrance, a text with every such note and the match percent; otherwise
\* a text with the match percent and the family; model 'fallback' and
\* cached false in each case.
C25_FallbackExplanationByOverlap ==
    (llm_resp.op = "rec" /\ llm_resp.raised = None /\ llm_resp.response.model = "fallback") =>
        LET q == llm_resp.request
            text == llm_resp.response.text
            notes == q.fragrance_details.top_notes \o q.fragrance_details.heart_notes
                        \o q.fragrance_details.base_notes
            overlap == {n \in Range(Names(q.profile.top_liked_notes)) :
                            \E i \in 1..Len(notes) : Lower(notes[i]) = Lower(n)}
        IN /\ llm_resp.response.cached = FALSE
           /\ IF q.recommendation.vetoed
              THEN text = <<"This fragrance contains notes you typically dislike. ",
                            "You might want to explore other options first.">>
              ELSE IF overlap # {}
              THEN /\ text[1] = "This " /\ text[2] = q.recommendation.match_percent
                   /\ text[3] = "% match contains "
                   /\ \A n \in overlap : \E i \in 4..Len(text) : text[i] = n
              ELSE /\ text[1] = "With a " /\ text[2] = q.recommendation.match_percent
                   /\ text[Len(text) - 1] = q.fragrance_details.family

\* C25 with the overlap taken over the first three entries of top_liked_notes
C25_FallbackByOverlapOfFirstThree ==
    (llm_resp.op = "rec" /\ llm_resp.raised = None /\ llm_resp.response.model = "fallback") =>
        LET q == llm_resp.request
            text == llm_resp.response.text
            notes == q.fragrance_details.top_notes \o q.fragrance_details.heart_notes
                        \o q.fragrance_details.base_notes
            overlap == {n \in Range(Names(SliceTo(q.profile.top_liked_notes, 3))) :
                            \E i \in 1..Len(notes) : Lower(notes[i]) = Lower(n)}
        IN /\ llm_resp.response.cached = FALSE
           /\ IF q.recommendation.vetoed
              THEN text = <<"This fragrance contains notes you typically dislike. ",
                            "You might want to explore other options first.">>
              ELSE IF overlap # {}
              THEN /\ text[1] = "This " /\ text[2] = q.recommendation.match_percent
                   /\ text[3] = "% match contains "
                   /\ \A n \in overlap : \E i \in 4..Len(text) : text[i] = n
              ELSE /\ text[1] = "With a " /\ text[2] = q.recommendation.match_percent
                   /\ text[Len(text) - 1] = q.fragrance_details.family

\* C26: seeding the default reviewers is idempotent: after a call, whatever
\* the store before it (also a store a previous call has seeded), there is
\* exactly one reviewer for each of Byron, Veronica, Bayden and Ariannah,
\* every reviewer that existed keeps its id, no other reviewer is added or
\* removed, and the call returns those four reviewers.
C26_SeedIsIdempotent ==
    resp.op = "seed" =>
        LET Defaults == Range(DEFAULT_REVIEWERS)
        IN /\ \A name \in Defaults : Len(get_by_name(reviewers, name)) = 1
           /\ Range(resp.before) \subseteq Range(reviewers)
           /\ {row \in Range(reviewers) : row.name \notin Defaults}
                = {row \in Range(resp.before) : row.name \notin Defaults}
           /\ \A row \in Range(reviewers) \ Range(resp.before) :
                /\ get_by_name(resp.before, row.name) = <<>>
                /\ \A old \in Range(resp.before) : old.id # row.id
           /\ Len(resp.reviewers) = Len(DEFAULT_REVIEWERS)
           /\ \A i \in 1..Len(DEFAULT_REVIEWERS) :
                get_by_name(reviewers, DEFAULT_REVIEWERS[i]) = <<resp.reviewers[i]>>
           /\ Len(reviewers) = Cardinality(Range(reviewers))

\* a call on a store holding one of the default reviewers, another reviewer
\* and not the other defaults
C26_Witness ==
    /\ resp.op = "seed"
    /\ \E row \in Range(resp.before) : row.name = "Bayden" /\ row.id > 1
    /\ \E row \in Range(resp.before) : row.name = "Zoe"
    /\ get_by_name(resp.before, "Byron") = <<>>

\* a call on a store a previous call has seeded leaves it as it is
C26_SecondCallChangesNothing ==
    (resp.op = "seed" /\ \A name \in Range(DEFAULT_REVIEWERS) :
                            get_by_name(resp.before, name) # <<>>)
        => reviewers = resp.before

C26_SecondCallWitness ==
    /\ resp.op = "seed"
    /\ Len(resp.before) = 5
    /\ reviewers = resp.before

\* C27: calculate_match_score changes nothing of the profile it is given:
\* after scoring any fragrance, also one whose notes, accords or families
\* are absent from the profile, the three affinity maps have the keys and
\* values they had, and the result of a candidate is the same whichever
\* candidate was scored before it.
C27_ScorerLeavesProfileAlone ==
    resp.op = "score" =>
        /\ resp.profile_after.note_affinities = resp.profile.note_affinities
        /\ resp.profile_after.accord_affinities = resp.profile.accord_affinities
        /\ resp.profile_after.family_affinities = resp.profile.family_affinities
        /\ resp.result = calculate_match_score(resp.profile, Catalog[resp.fragrance_id])

\* f4 (fresh / citrus, accords citrus, aquatic, green) scored after f2, whose
\* notes n4..n7, accords and subfamily amber the profile does not hold
C27_Witness ==
    /\ resp.op = "score"
    /\ resp.before = <<"f2">>
    /\ resp.fragrance_id = "f4"
    /\ ~resp.result.vetoed
    /\ "citrus" \notin DictKeys(resp.profile.family_affinities)
    /\ "citrus" \notin DictKeys(resp.profile.accord_affinities)
    /\ "n4" \notin DictKeys(resp.profile.note_affinities)

\* C28: an explanation request changes the cache only by the entry of its
\* own key, and only when its external call has succeeded: a cache hit, the
\* fallback of a disabled adapter and a failed external call leave the cache
\* exactly as it was, no entry under another key is altered, and a fallback
\* text is never stored.
C28_RequestsOnlyStoreTheirOwnSuccess ==
    [][(LLMIdle /\ ~CacheDropped) =>
          IF CallEnds /\ llm_resp'.raised = None /\ llm_resp'.response.model # "fallback"
          THEN LET key == CacheKeyOf(llm_resp'.request)
               IN /\ DOMAIN cache' = DOMAIN cache \cup {key}
                  /\ cache'[key] = llm_resp'.response.text
                  /\ llm_resp'.response.cached = FALSE
                  /\ \A k \in DOMAIN cache \ {key} : cache'[k] = cache[k]
          ELSE cache' = cache]_vars

\* a successful call has added its entry to a cache that held another one
C28_Witness ==
    /\ llm_resp.op \in {"rec", "profile"}
    /\ llm_resp.raised = None
    /\ llm_resp.outcome # NoCall
    /\ llm_resp.response.model = LLM_MODEL
    /\ Cardinality(DOMAIN cache) >= 2
    /\ cache[CacheKeyOf(llm_resp.request)] = llm_resp.response.text

\* a failed call has returned the fallback with a cache that holds entries
C28_FailedCallWitness ==
    /\ llm_resp.op \in {"rec", "profile"}
    /\ llm_resp.raised = None
    /\ llm_resp.outcome # NoCall
    /\ llm_resp.response.model = "fallback"
    /\ CacheKeyOf(llm_resp.request) \notin DOMAIN cache
    /\ cache # <<>>

\* C29: once the evaluations of a reviewer have changed (a create, update or
\* delete through the API), a text cached for that reviewer before the
\* change is not returned with cached=true to a request made after it: a
\* request is only served from an entry stored since the reviewer's
\* evaluations last changed.
C29_NoStaleTextAfterChange ==
    [][(/\ LLMIdle
        /\ llm_resp'.op \in {"rec", "profile"}
        /\ llm_resp'.raised = None
        /\ llm_resp'.response.cached)
            => StoredFor(llm_resp'.request) \in fresh]_vars

\* what the handlers do: a change of the evaluations leaves every entry of
\* the cache in place, and a request whose key has an entry is served from it
C29_ChangeKeepsEntriesAndHitsServeThem ==
    [][/\ evaluations' # evaluations => cache' = cache
       /\ (/\ LLMIdle
           /\ llm_resp'.op = "profile"
           /\ CacheKeyOf(llm_resp'.request) \in DOMAIN cache)
            => /\ llm_resp'.response.cached
               /\ llm_resp'.response.text = cache[CacheKeyOf(llm_resp'.request)]]_vars

\* C30: in the explanation endpoint, for every existing fragrance f (and a
\* reviewer with the evaluations an explanation needs), one recommendation
\* is handed to the adapter and it carries the vetoed flag, the veto reason
\* and the match percent that the scorer computes for f with the reviewer's
\* profile; so a vetoed fragrance is never explained as a non-vetoed 50% match.
C30_ExplainedAsScored ==
    (/\ resp.op = "explain"
     /\ resp.fragrance_id \in Fragrances
     /\ resp.evaluation_count >= 3) =>
        LET result == resp.scorer
        IN /\ Len(resp.handed) = 1
           /\ resp.handed[1].fragrance_id = resp.fragrance_id
           /\ resp.handed[1].vetoed = result.vetoed
           /\ resp.handed[1].match_percent = result.score_percent
           /\ resp.handed[1].veto_reason =
                IF result.vetoed THEN <<"Contains ", result.veto_note, " which you dislike">>
                ELSE NoneStr

\* what the handler does for an existing fragrance and a sufficient profile:
\* it raises AttributeError and hands nothing to the adapter, whether the
\* scorer vetoes the fragrance or not
C30_ExplainRaisesBeforeTheAdapter ==
    (/\ resp.op = "explain"
     /\ resp.fragrance_id \in Fragrances
     /\ resp.evaluation_count >= 3) =>
        /\ resp.raised = "AttributeError"
        /\ resp.status = 500
        /\ resp.handed = <<>>

C30_VetoedFragranceWitness ==
    /\ resp.op = "explain"
    /\ resp.fragrance_id \in Fragrances
    /\ resp.evaluation_count >= 3
    /\ resp.scorer.vetoed

====
